---- MODULE Spec2Model ----
(***************************************************************************)
(* Model of the shelley server core: the subscription bus (package subpub) *)
(* and the server coordinator that publishes through it.                   *)
(***************************************************************************)
EXTENDS Integers, Sequences, FiniteSets, TLC

(***************************************************************************)
(* Bounds and program constants                                            *)
(***************************************************************************)

\* The subscriber handles a run may create (each Subscribe call makes one).
Subs == {"s1", "s2"}

\* Handles are taken in a fixed order: the n-th Subscribe call makes the n-th.
SubOrder(s) == IF s = "s1" THEN 1 ELSE 2

\* make(chan K, 10): the capacity of a subscriber's mailbox.
ChanCap == 10

\* Publish indices range over 0..MaxIdx; Subscribe indices over -1..MaxIdx-1.
MaxIdx == 1

Idxs == 0 .. MaxIdx

SinceIdxs == -1 .. MaxIdx - 1

(***************************************************************************)
(* Values carried by the bus (the type parameter K is StreamResponse).     *)
(*   msg  : the snapshot of the message with sequence id n                 *)
(*   list : a conversation-list update, sent with Broadcast                *)
(*   zero : the zero value NextFn returns together with false              *)
(***************************************************************************)
MsgVal(j) == [k |-> "msg", n |-> j]

ListVal == [k |-> "list", n |-> -1]

ZeroVal == [k |-> "zero", n |-> -1]

PubVals(j) == {MsgVal(j)}

BcastVals == {ListVal}

VARIABLES
    subscribers,  \* sp.subscribers: the registered subscribers, in slice order
    idx,          \* sub.idx
    ch,           \* sub.ch: the buffered values, oldest first
    closed,       \* whether close(sub.ch) has run
    done,         \* whether sub.ctx is Done (cancelled by the parent or by sub.cancel)
    born,         \* whether Subscribe has created this subscriber
    panic,        \* a send on a closed channel or a second close has happened
    seen          \* the sequence id of the last snapshot NextFn returned (-1: none yet)

busVars == <<subscribers, idx, ch, closed, done, born, panic, seen>>

\* The interleaved view of the bus (specification SpecConc).
VARIABLES
    pub,          \* the Publish or Broadcast call that holds sp.mu, and its place in the loop
    cpc,          \* where each consumer is inside NextFn
    term,         \* NextFn has returned false to this consumer: its loop has ended
    calls         \* Publish and Broadcast calls started so far

concVars == <<pub, cpc, term, calls>>

\* The coordinator's notifications for one conversation (specification SpecNotify).
VARIABLES
    msgs,         \* the messages of the conversation in the log: sequence ids 0 .. msgs-1
    npc,          \* where the notification goroutine of each message is
    published     \* the indices of the Publish calls on the manager's bus, in call order

notifyVars == <<msgs, npc, published>>

\* getOrCreateConversationManager (specification SpecMgr).
VARIABLES
    activeConversations,  \* s.activeConversations: conversation id -> manager (NoMgr: no entry)
    sfCalls,              \* the singleflight group's calls in flight, by key
    smu,                  \* who holds s.mu
    hpc,                  \* where each caller is
    arg,                  \* the conversation id each caller asked for
    fnMgr,                \* the manager the caller's fn has created and is hydrating
    result,               \* what each call returned: the manager and the error
    created,              \* NewConversationManager calls, by conversation id
    hydrated,             \* Hydrate calls, by conversation id
    failed                \* Hydrate calls that failed, by conversation id

mgrVars == <<activeConversations, sfCalls, smu, hpc, arg, fnMgr, result, created, hydrated, failed>>

\* The end-of-turn observer applied to message lists (specification SpecAW).
VARIABLES
    awMsgs,       \* the message list handed to agentWorking
    awOut         \* what the last agentWorking call on awMsgs returned, if it was called

awVars == <<awMsgs, awOut>>

\* Sanitize applied to strings (specification SpecSan).
VARIABLES
    sanIn,        \* the input string, as a sequence of characters
    sanOnce,      \* Sanitize(sanIn), once sanStage >= 1
    sanTwice,     \* Sanitize(sanOnce), once sanStage = 2
    sanStage      \* how many times Sanitize has been applied

sanVars == <<sanIn, sanOnce, sanTwice, sanStage>>

\* generateSlugText applied to provider configurations (specification SpecText).
VARIABLES
    txIn,         \* the provider's models and the conversation model of the call
    txOut,        \* the models the call tried, in order, and its result
    txStage       \* 0 before the call, 1 after

textVars == <<txIn, txOut, txStage>>

\* Slug allocation (specifications SpecSlug and SpecSlugConc).
VARIABLES
    slugOf,       \* conversations.slug of the conversations that allocate (NoSlug: NULL)
    held,         \* the slugs of the other rows of the conversations table
    gs            \* each conversation's GenerateSlug call: its place in the loop and its result

slugVars == <<slugOf, held, gs>>

\* Turns of one conversation (specification SpecTurn).
VARIABLES
    tlog,         \* the conversation's message log, in append order
    turn,         \* each manager's current_turn: the worker of its turn in progress
    workers,      \* the turn worker each chat request started: its place in the loop, its cancel token, its manager
    chat,         \* where each chat request is, and how it ended
    first,        \* is_first_message, as AcceptUserMessage computed it for each request
    cancelPc,     \* where the cancel request is
    cancelTurn,   \* the turn whose completion the cancel request waits for
    cancelMgr,    \* the manager the cancel request found
    turnNow,      \* time.Now()
    lastActivity  \* manager.lastActivity

turnVars == <<tlog, turn, workers, chat, first, cancelPc, cancelTurn, cancelMgr, turnNow, lastActivity>>

\* The slug goroutine a chat request starts (specification SpecTurn).
VARIABLES
    slugPc        \* per chat request: whether its slug goroutine ran, and how it ended

sideVars == <<slugPc>>

\* isPort80 (specification SpecPort).
VARIABLES
    urlIn,        \* the URL string handed to isPort80, as its sequence of tokens
    urlOut        \* what isPort80 returned for it

urlVars == <<urlIn, urlOut>>

\* The browser runtime (specification SpecBrowser).
VARIABLES
    browserCtx,   \* b.browserCtx: 0 for nil, else the browser instance it belongs to
    alive,        \* the instances whose context is not cancelled
    started,      \* browser instances created so far
    bmux,         \* b.mux: "free", or "starting" while GetBrowserContext starts a browser
    idleTimer,    \* b.idleTimer
    pending,      \* idleShutdown callbacks of fired timers that have not run yet
    now,          \* the clock
    lastUse,      \* when GetBrowserContext last returned a context
    gbc,          \* the last GetBrowserContext call and its result
    tool,         \* the last tool invocation and its result
    toolCalls,    \* tool invocations so far
    closedBy      \* what closed the browser last: "idle", "close" or "crash"

brVars == <<browserCtx, alive, started, bmux, idleTimer, pending, now, lastUse, gbc, tool, toolCalls, closedBy>>

\* The console-log buffer (specification SpecConsole).
VARIABLES
    consoleLogs,  \* b.consoleLogs, each event standing as its number
    captured,     \* every event captured since the last clear
    conEvents,    \* console events so far
    conOut        \* what the last console_logs / clear_console_logs call returned

conVars == <<consoleLogs, captured, conEvents, conOut>>

\* Downloads (specification SpecDownloads).
VARIABLES
    downloads,    \* b.downloads, by GUID
    dlState,      \* where the browser is with each download
    dlOuts        \* per tool invocation, the downloads its output listed

dlVars == <<downloads, dlState, dlOuts>>

\* The conversations table and its ordering (specification SpecOrder).
VARIABLES
    updatedAt,    \* conversations.updated_at
    archived,     \* conversations.archived
    ordSlug,      \* conversations.slug, "" for NULL
    ordNow,       \* CURRENT_TIMESTAMP
    appends,      \* messages appended so far
    ordPending,   \* recordMessage calls between CreateMessage and UpdateConversationTimestamp
    lastOp        \* the last operation on the table

ordVars == <<updatedAt, archived, ordSlug, ordNow, appends, ordPending, lastOp>>

rtVars == <<urlVars, brVars, conVars, dlVars, ordVars>>


\* Deleting conversations (specification SpecDelete).
VARIABLES
    convRows,     \* the conversations that have their rows in the database
    delOut        \* what the last delete request found and answered

delVars == <<convRows, delOut>>


\* The agent_working flag of published and of initial snapshots (specification SpecSnap).
VARIABLES
    dbLog,        \* the conversation's messages as the database holds them
    snapFlag,     \* AgentWorking of the snapshot published for the last message
    initFlag      \* AgentWorking of the initial snapshot a stream request gets now

snapVars == <<dbLog, snapFlag, initFlag>>


\* GenerateSlug from the models' answers to the stored slug (specification SpecGen).
VARIABLES
    genIn,        \* the provider's models, the conversation model and what each answers
    genOut,       \* what generateSlugText returned, and the calls it made
    genDb,        \* the slugs handed to UpdateConversationSlug
    genStage      \* 0 before the call, 1 after

genVars == <<genIn, genOut, genDb, genStage>>


\* Stream requests next to the notifications (specification SpecStream).
VARIABLES
    stPc,         \* where each stream request is: "idle", "read" (log sent), "sub" (subscribed)
    stLast,       \* the sequence id each request subscribes at (-1: the log was empty)
    stGot,        \* the messages each client has been sent, in the log or in a snapshot
    present,      \* the subscribers registered and live when Publish ran for each message
    metaPc,       \* where the notifySubscribers call is
    metaIdx,      \* the latest sequence id it read
    metaRuns      \* notifySubscribers calls started so far

stVars == <<stPc, stLast, stGot, present, metaPc, metaIdx, metaRuns>>


\* Eviction of idle managers (specification SpecEvict).
VARIABLES
    evNow,        \* time.Now(), in units of fifteen minutes
    evMap,        \* s.activeConversations: conversation id -> manager (NoMgr: no entry)
    evLast,       \* manager.lastActivity
    evMade,       \* NewConversationManager calls so far; managers are numbered in that order
    evStopped,    \* the managers whose stopLoop has run
    evMsgs,       \* the messages of conversation "c1": sequence ids 0 .. evMsgs-1
    evNpc,        \* where the notification goroutine of each message is
    evNmgr,       \* the manager that goroutine found in the map
    evPublished,  \* the messages whose snapshot was published, in Publish order
    evBus,        \* each manager's bus
    evSub,        \* the stream request for "c1": its place, `last`, its manager, what it was sent
    evOp          \* TRUE when the last operation was Cleanup

evVars == <<evNow, evMap, evLast, evMade, evStopped, evMsgs, evNpc, evNmgr, evPublished, evBus, evSub, evOp>>

\* LATEVARS
lateVars == <<delVars, snapVars, genVars, stVars, evVars>>

extVars == <<sideVars, rtVars, lateVars>>

\* Everything but rtVars.
coreVars == <<busVars, concVars, notifyVars, mgrVars, awVars, sanVars, textVars, slugVars, turnVars, sideVars, lateVars>>

appVars == <<awVars, sanVars, textVars, slugVars, turnVars, extVars>>

srvVars == <<notifyVars, mgrVars, appVars>>

vars == <<busVars, concVars, srvVars>>

Range(q) == {q[i] : i \in 1 .. Len(q)}

(***************************************************************************)
(* The bus as a value, so that the loops of Publish and Broadcast can be   *)
(* computed the way the code runs them.                                    *)
(***************************************************************************)
Bus ==
    [subscribers |-> subscribers, remaining |-> <<>>, idx |-> idx, ch |-> ch,
     closed |-> closed, done |-> done, panic |-> panic, blocked |-> FALSE]

\* close(sub.ch); closing a closed channel panics.
CloseCh(b, s) ==
    [b EXCEPT !.closed[s] = TRUE, !.panic = b.panic \/ b.closed[s]]

\* remaining = append(remaining, sub)
Keep(b, s) == [b EXCEPT !.remaining = Append(b.remaining, s)]

\* Mutants of TrySend.
\* The success branch forgets sub.idx = idx.
TrySend_NoIdxUpdate(b, s, isPublish, j, v) ==
    IF b.closed[s]
    THEN [b EXCEPT !.panic = TRUE]
    ELSE IF Len(b.ch[s]) < ChanCap
         THEN Keep([b EXCEPT !.ch[s] = Append(b.ch[s], v)], s)
         ELSE [CloseCh(b, s) EXCEPT !.done[s] = TRUE]

\* The default branch keeps the subscriber instead of disconnecting it.
TrySend_KeepsFull(b, s, isPublish, j, v) ==
    IF b.closed[s]
    THEN [b EXCEPT !.panic = TRUE]
    ELSE IF Len(b.ch[s]) < ChanCap
         THEN Keep([b EXCEPT !.ch[s] = Append(b.ch[s], v),
                             !.idx[s] = IF isPublish THEN j ELSE b.idx[s]], s)
         ELSE Keep(b, s)

\* A plain send (no select/default): the publisher waits while the buffer is full.
TrySend_Blocking(b, s, isPublish, j, v) ==
    IF b.closed[s]
    THEN [b EXCEPT !.panic = TRUE]
    ELSE IF Len(b.ch[s]) < ChanCap
         THEN Keep([b EXCEPT !.ch[s] = Append(b.ch[s], v),
                             !.idx[s] = IF isPublish THEN j ELSE b.idx[s]], s)
         ELSE [b EXCEPT !.blocked = TRUE]

\* The value is put in front of the buffered ones.
TrySend_Prepend(b, s, isPublish, j, v) ==
    IF b.closed[s]
    THEN [b EXCEPT !.panic = TRUE]
    ELSE IF Len(b.ch[s]) < ChanCap
         THEN Keep([b EXCEPT !.ch[s] = <<v>> \o b.ch[s],
                             !.idx[s] = IF isPublish THEN j ELSE b.idx[s]], s)
         ELSE [CloseCh(b, s) EXCEPT !.done[s] = TRUE]

\* Broadcast advances sub.idx as Publish does.
TrySend_AlwaysIdx(b, s, isPublish, j, v) ==
    IF b.closed[s]
    THEN [b EXCEPT !.panic = TRUE]
    ELSE IF Len(b.ch[s]) < ChanCap
         THEN Keep([b EXCEPT !.ch[s] = Append(b.ch[s], v), !.idx[s] = j + 1], s)
         ELSE [CloseCh(b, s) EXCEPT !.done[s] = TRUE]

\* The default branch closes the channel but keeps the subscriber.
TrySend_ClosedStays(b, s, isPublish, j, v) ==
    IF b.closed[s]
    THEN [b EXCEPT !.panic = TRUE]
    ELSE IF Len(b.ch[s]) < ChanCap
         THEN Keep([b EXCEPT !.ch[s] = Append(b.ch[s], v),
                             !.idx[s] = IF isPublish THEN j ELSE b.idx[s]], s)
         ELSE Keep([CloseCh(b, s) EXCEPT !.done[s] = TRUE], s)

\* select { case sub.ch <- message: ... default: ... }
\* A send on a closed channel panics; a full buffer takes the default branch.
TrySend(b, s, isPublish, j, v) ==
    IF b.closed[s]
    THEN [b EXCEPT !.panic = TRUE]
    ELSE IF Len(b.ch[s]) < ChanCap
         THEN Keep([b EXCEPT !.ch[s] = Append(b.ch[s], v),
                             !.idx[s] = IF isPublish THEN j ELSE b.idx[s]], s)
         ELSE [CloseCh(b, s) EXCEPT !.done[s] = TRUE]

\* Mutant of Deliver: sub.idx <= idx instead of sub.idx < idx.
Deliver_Le(b, s, isPublish, j, v) ==
    IF isPublish /\ ~(b.idx[s] <= j)
    THEN Keep(b, s)
    ELSE TrySend(b, s, isPublish, j, v)

\* The part of the loop body after the ctx.Done check.
Deliver(b, s, isPublish, j, v) ==
    IF isPublish /\ ~(b.idx[s] < j)
    THEN Keep(b, s)
    ELSE TrySend(b, s, isPublish, j, v)

\* Mutant of LoopBody: no ctx.Done check.
LoopBody_NoCtxCheck(b, s, isPublish, j, v) == Deliver(b, s, isPublish, j, v)

\* One iteration of the loop over sp.subscribers.
LoopBody(b, s, isPublish, j, v) ==
    IF b.done[s]
    THEN CloseCh(b, s)
    ELSE Deliver(b, s, isPublish, j, v)

RECURSIVE RunLoop(_, _, _, _, _)
RunLoop(b, i, isPublish, j, v) ==
    IF i > Len(b.subscribers)
    THEN [b EXCEPT !.subscribers = b.remaining, !.remaining = <<>>]
    ELSE RunLoop(LoopBody(b, b.subscribers[i], isPublish, j, v), i + 1, isPublish, j, v)

SetBus(b) ==
    /\ subscribers' = b.subscribers
    /\ idx' = b.idx
    /\ ch' = b.ch
    /\ closed' = b.closed
    /\ done' = b.done
    /\ panic' = b.panic

(***************************************************************************)
(* Operations of the bus, each as one step (the mutex serialises them).    *)
(***************************************************************************)
Subscribe(s, i) ==
    /\ ~born[s]
    /\ \A r \in Subs : SubOrder(r) < SubOrder(s) => born[r]
    /\ born' = [born EXCEPT ![s] = TRUE]
    /\ idx' = [idx EXCEPT ![s] = i]
    /\ subscribers' = Append(subscribers, s)
    /\ UNCHANGED <<ch, closed, done, panic, seen>>

\* The context handed to Subscribe is cancelled (the client went away).
Cancel(s) ==
    /\ born[s]
    /\ ~done[s]
    /\ done' = [done EXCEPT ![s] = TRUE]
    /\ UNCHANGED <<subscribers, idx, ch, closed, born, panic, seen>>

\* The call returns once the loop has run; a loop that had to wait for a
\* subscriber (blocked) would not return.
PublishResult(j, v) == RunLoop(Bus, 1, TRUE, j, v)

BroadcastResult(v) == RunLoop(Bus, 1, FALSE, 0, v)

Publish(j, v) ==
    LET r == PublishResult(j, v)
    IN  /\ ~r.blocked
        /\ SetBus(r)
        /\ UNCHANGED <<born, seen>>

Broadcast(v) ==
    LET r == BroadcastResult(v)
    IN  /\ ~r.blocked
        /\ SetBus(r)
        /\ UNCHANGED <<born, seen>>

\* What a NextFn call returns when it does not block: <<value, ok>>.
\* Both select branches give the same result: a buffered value if there is
\* one, else false (the channel is closed, or the context is done).
NextResult(s) ==
    IF ch[s] # <<>> THEN <<Head(ch[s]), TRUE>> ELSE <<ZeroVal, FALSE>>

NextReady(s) == ch[s] # <<>> \/ closed[s] \/ done[s]

NextFn(s) ==
    /\ born[s]
    /\ NextReady(s)
    /\ ch' = [ch EXCEPT ![s] = IF ch[s] # <<>> THEN Tail(ch[s]) ELSE ch[s]]
    /\ seen' = [seen EXCEPT ![s] = IF NextResult(s)[1].k = "msg" THEN NextResult(s)[1].n ELSE seen[s]]
    /\ UNCHANGED <<subscribers, idx, closed, done, born, panic>>

InitBus ==
    /\ subscribers = <<>>
    /\ idx = [s \in Subs |-> 0]
    /\ ch = [s \in Subs |-> <<>>]
    /\ closed = [s \in Subs |-> FALSE]
    /\ done = [s \in Subs |-> FALSE]
    /\ born = [s \in Subs |-> FALSE]
    /\ panic = FALSE
    /\ seen = [s \in Subs |-> -1]

PubIdle == [op |-> "idle", j |-> 0, v |-> ZeroVal, i |-> 0, stage |-> "ctx", remaining |-> <<>>]

InitConc ==
    /\ pub = PubIdle
    /\ cpc = [s \in Subs |-> "select"]
    /\ term = [s \in Subs |-> FALSE]
    /\ calls = 0

(***************************************************************************)
(* The server coordinator: notifications and the manager map.              *)
(***************************************************************************)

\* Messages a run appends to the conversation.
MaxMsgs == 4

SeqIds == 0 .. MaxMsgs - 1

InitNotify ==
    /\ msgs = 0
    /\ npc = [n \in SeqIds |-> "none"]
    /\ published = <<>>

\* recordMessage: CreateMessage gives the message the next sequence id, the
\* conversation's timestamp and the manager's activity time are updated,
\* and the notification is started on a goroutine of its own.
RecordMessage ==
    /\ msgs < MaxMsgs
    /\ msgs' = msgs + 1
    /\ npc' = [npc EXCEPT ![msgs] = "lookup"]
    /\ UNCHANGED published

\* notifySubscribersNewMessage, up to the snapshot being built: the manager
\* is looked up under s.mu and the conversation is read from the database.
\* Without an active manager, or when the read fails, it returns here.
NotifyLookup(n, ok) ==
    /\ npc[n] = "lookup"
    /\ npc' = [npc EXCEPT ![n] = IF ok THEN "publish" ELSE "done"]
    /\ UNCHANGED <<msgs, published>>

\* manager.subpub.Publish(newMsg.SequenceID, streamData)
NotifyPublish(n) ==
    /\ npc[n] = "publish"
    /\ Publish(n, MsgVal(n))
    /\ published' = Append(published, n)
    /\ npc' = [npc EXCEPT ![n] = "broadcast"]
    /\ UNCHANGED msgs

\* publishConversationListUpdate: Broadcast on the bus of every active manager.
NotifyBroadcast(n) ==
    /\ npc[n] = "broadcast"
    /\ Broadcast(ListVal)
    /\ npc' = [npc EXCEPT ![n] = "done"]
    /\ UNCHANGED <<msgs, published>>

NextNotify ==
    \/ RecordMessage /\ UNCHANGED <<busVars, concVars, mgrVars, appVars>>
    \/ \E n \in SeqIds, ok \in BOOLEAN : NotifyLookup(n, ok) /\ UNCHANGED <<busVars, concVars, mgrVars, appVars>>
    \/ \E n \in SeqIds : NotifyPublish(n) /\ UNCHANGED <<concVars, mgrVars, appVars>>
    \/ \E n \in SeqIds : NotifyBroadcast(n) /\ UNCHANGED <<concVars, mgrVars, appVars>>

ConvIds == {"c1", "c2"}

Callers == {"h1", "h2", "h3"}

NoMgr == 0

NoCall == [leader |-> "none", waiters |-> {}]

NoResult == [mgr |-> NoMgr, err |-> FALSE]

InitMgr ==
    /\ activeConversations = [c \in ConvIds |-> NoMgr]
    /\ sfCalls = [c \in ConvIds |-> NoCall]
    /\ smu = "free"
    /\ hpc = [h \in Callers |-> "idle"]
    /\ arg = [h \in Callers |-> "c1"]
    /\ fnMgr = [h \in Callers |-> NoMgr]
    /\ result = [h \in Callers |-> NoResult]
    /\ created = [c \in ConvIds |-> 0]
    /\ hydrated = [c \in ConvIds |-> 0]
    /\ failed = [c \in ConvIds |-> 0]

\* The managers made so far are numbered 1, 2, ...; the next one:
NewMgr == 1 + created["c1"] + created["c2"]

\* s.conversationGroup.Do(conversationID, fn): a caller that finds a call in
\* flight for its key waits for that call's result; otherwise it registers
\* a call and runs fn itself.
DoCall(h, c) ==
    /\ hpc[h] = "idle"
    /\ arg' = [arg EXCEPT ![h] = c]
    /\ IF sfCalls[c].leader # "none"
       THEN /\ sfCalls' = [sfCalls EXCEPT ![c].waiters = @ \cup {h}]
            /\ hpc' = [hpc EXCEPT ![h] = "wait"]
       ELSE /\ sfCalls' = [sfCalls EXCEPT ![c] = [leader |-> h, waiters |-> {}]]
            /\ hpc' = [hpc EXCEPT ![h] = "fn"]
    /\ UNCHANGED <<activeConversations, smu, fnMgr, result, created, hydrated, failed>>

\* Mutant of FnLookup: fn does not look the conversation up in the map.
FnLookup_NoMapCheck(h) ==
    /\ hpc[h] = "fn"
    /\ smu = "free"
    /\ smu' = h
    /\ created' = [created EXCEPT ![arg[h]] = @ + 1]
    /\ fnMgr' = [fnMgr EXCEPT ![h] = NewMgr]
    /\ hpc' = [hpc EXCEPT ![h] = "hydrate"]
    /\ UNCHANGED <<activeConversations, sfCalls, arg, result, hydrated, failed>>

\* fn, from s.mu.Lock() to the Hydrate call: an existing manager is touched
\* and returned (s.mu is released by the deferred Unlock); otherwise
\* NewConversationManager makes one and Hydrate starts, s.mu still held.
FnLookup(h) ==
    /\ hpc[h] = "fn"
    /\ smu = "free"
    /\ IF activeConversations[arg[h]] # NoMgr
       THEN /\ fnMgr' = [fnMgr EXCEPT ![h] = activeConversations[arg[h]]]
            /\ hpc' = [hpc EXCEPT ![h] = "fnret"]
            /\ UNCHANGED <<smu, created>>
       ELSE /\ smu' = h
            /\ created' = [created EXCEPT ![arg[h]] = @ + 1]
            /\ fnMgr' = [fnMgr EXCEPT ![h] = NewMgr]
            /\ hpc' = [hpc EXCEPT ![h] = "hydrate"]
    /\ UNCHANGED <<activeConversations, sfCalls, arg, result, hydrated, failed>>

\* manager.Hydrate(ctx) returns; on success the manager is stored. The
\* deferred Unlock releases s.mu either way.
FnHydrate(h, ok) ==
    /\ hpc[h] = "hydrate"
    /\ smu = h
    /\ smu' = "free"
    /\ hydrated' = [hydrated EXCEPT ![arg[h]] = @ + 1]
    /\ IF ok
       THEN /\ activeConversations' = [activeConversations EXCEPT ![arg[h]] = fnMgr[h]]
            /\ UNCHANGED <<fnMgr, failed>>
       ELSE /\ fnMgr' = [fnMgr EXCEPT ![h] = NoMgr]
            /\ failed' = [failed EXCEPT ![arg[h]] = @ + 1]
            /\ UNCHANGED activeConversations
    /\ hpc' = [hpc EXCEPT ![h] = "fnret"]
    /\ UNCHANGED <<sfCalls, arg, result, created>>

\* fn has returned: the group forgets the call and hands its result to the
\* caller that ran it and to every caller that waited for it.
DoReturn(h) ==
    /\ hpc[h] = "fnret"
    /\ LET c == arg[h]
           got == sfCalls[c].waiters \cup {h}
           res == [mgr |-> fnMgr[h], err |-> fnMgr[h] = NoMgr]
       IN  /\ sfCalls' = [sfCalls EXCEPT ![c] = NoCall]
           /\ result' = [x \in Callers |-> IF x \in got THEN res ELSE result[x]]
           /\ hpc' = [x \in Callers |-> IF x \in got THEN "done" ELSE hpc[x]]
    /\ UNCHANGED <<activeConversations, smu, arg, fnMgr, created, hydrated, failed>>

NextMgr ==
    \/ \E h \in Callers, c \in ConvIds : DoCall(h, c) /\ UNCHANGED <<busVars, concVars, notifyVars, appVars>>
    \/ \E h \in Callers : FnLookup(h) /\ UNCHANGED <<busVars, concVars, notifyVars, appVars>>
    \/ \E h \in Callers, ok \in BOOLEAN : FnHydrate(h, ok) /\ UNCHANGED <<busVars, concVars, notifyVars, appVars>>
    \/ \E h \in Callers : DoReturn(h) /\ UNCHANGED <<busVars, concVars, notifyVars, appVars>>

(***************************************************************************)
(* The end-of-turn observer: agentWorking over a list of API messages.     *)
(* A message is its Type and, for an agent message, its EndOfTurn pointer  *)
(* (nil, true or false).                                                   *)
(***************************************************************************)

\* Length of the message lists agentWorking is applied to.
MaxAwLen == 4

MsgTypes == {"user", "agent", "tool", "error", "gitinfo"}

ApiMsg(type, eot) == [type |-> type, eot |-> eot]

ApiMsgs ==
    {ApiMsg(ty, "nil") : ty \in MsgTypes} \cup {ApiMsg("agent", "true"), ApiMsg("agent", "false")}

GitInfo == ApiMsg("gitinfo", "nil")

\* Mutant of SkipGitInfo: trailing gitinfo messages are not skipped.
SkipGitInfo_NoSkip(ms, lastIdx) == lastIdx

\* for lastIdx >= 0 && messages[lastIdx].Type == gitinfo { lastIdx-- }
\* (indices here start at 1, so 0 stands for the code's -1).
RECURSIVE SkipGitInfo(_, _)
SkipGitInfo(ms, lastIdx) ==
    IF lastIdx >= 1 /\ ms[lastIdx].type = "gitinfo"
    THEN SkipGitInfo(ms, lastIdx - 1)
    ELSE lastIdx

\* The final loop: from lastIdx down, the first agent message decides, and
\* every branch of it returns true; so does the fall-through after the loop.
RECURSIVE ScanForAgent(_, _)
ScanForAgent(ms, i) ==
    IF i < 1 THEN TRUE
    ELSE IF ms[i].type # "agent" THEN ScanForAgent(ms, i - 1)
    ELSE IF ms[i].eot = "nil" THEN TRUE
    ELSE IF ms[i].eot = "false" THEN TRUE
    ELSE TRUE

\* Mutant of AgentVerdict: the EndOfTurn flag is read the wrong way round.
AgentVerdict_Inverted(last) == IF last.eot = "nil" THEN TRUE ELSE last.eot = "true"

\* if last.EndOfTurn == nil { return true }; return !*last.EndOfTurn
AgentVerdict(last) == IF last.eot = "nil" THEN TRUE ELSE ~(last.eot = "true")

agentWorking(ms) ==
    IF Len(ms) = 0 THEN FALSE
    ELSE LET lastIdx == SkipGitInfo(ms, Len(ms))
         IN  IF lastIdx < 1 THEN FALSE
             ELSE LET last == ms[lastIdx]
                  IN  IF last.type = "error" THEN FALSE
                      ELSE IF last.type = "agent" THEN AgentVerdict(last)
                      ELSE ScanForAgent(ms, lastIdx)

AwUnset == [called |-> FALSE, val |-> FALSE]

InitAW ==
    /\ awMsgs = <<>>
    /\ awOut = AwUnset

\* A message is appended to the list the observer will look at.
AwAppend(m) ==
    /\ Len(awMsgs) < MaxAwLen
    /\ awMsgs' = Append(awMsgs, m)
    /\ awOut' = AwUnset

\* agentWorking(messages)
AwCall ==
    /\ ~awOut.called
    /\ awOut' = [called |-> TRUE, val |-> agentWorking(awMsgs)]
    /\ UNCHANGED awMsgs

NextAW ==
    \/ \E m \in ApiMsgs : AwAppend(m) /\ UNCHANGED <<busVars, concVars, notifyVars, mgrVars, sanVars, textVars, slugVars, turnVars, extVars>>
    \/ AwCall /\ UNCHANGED <<busVars, concVars, notifyVars, mgrVars, sanVars, textVars, slugVars, turnVars, extVars>>

(***************************************************************************)
(* package slug: Sanitize.  A string is a sequence of characters; the      *)
(* alphabet has a lowercase letter, an uppercase letter, a digit, a space, *)
(* an underscore, a hyphen and a character that is none of these.          *)
(***************************************************************************)

\* if len(slug) > 60 { slug = slug[:60] ... }
SlugMaxLen == 60

\* Length of the free part of the input strings.
MaxSanLen == 3

Alphabet == {"a", "Z", "7", " ", "_", "-", "!"}

\* strings.ToLower
ToLower(c) == IF c = "Z" THEN "z" ELSE c

\* [\s_]
IsSpaceOrUnderscore(c) == c \in {" ", "_"}

\* [^a-z0-9-]
IsNotSlugChar(c) == c \notin {"a", "z", "7", "-"}

IsHyphen(c) == c = "-"

\* The characters a string can hold before and after strings.ToLower.
Chars == Alphabet \cup {ToLower(c) : c \in Alphabet}

\* regexp.ReplaceAllString(s, repl) for a pattern of the form [class]+ :
\* every maximal run of characters of the class becomes repl.
RECURSIVE ReplaceRuns(_, _, _, _)
ReplaceRuns(s, class, repl, i) ==
    IF i > Len(s) THEN <<>>
    ELSE IF s[i] \notin class THEN <<s[i]>> \o ReplaceRuns(s, class, repl, i + 1)
    ELSE IF i > 1 /\ s[i - 1] \in class THEN ReplaceRuns(s, class, repl, i + 1)
    ELSE repl \o ReplaceRuns(s, class, repl, i + 1)

\* strings.Trim(s, "-")
RECURSIVE TrimHyphens(_)
TrimHyphens(s) ==
    IF s = <<>> THEN s
    ELSE IF s[1] = "-" THEN TrimHyphens(Tail(s))
    ELSE IF s[Len(s)] = "-" THEN TrimHyphens(SubSeq(s, 1, Len(s) - 1))
    ELSE s

\* Mutant of Truncate: the cut is not trimmed again.
Truncate_NoTrim(s) == IF Len(s) > SlugMaxLen THEN SubSeq(s, 1, SlugMaxLen) ELSE s

\* if len(slug) > 60 { slug = slug[:60]; slug = strings.Trim(slug, "-") }
Truncate(s) == IF Len(s) > SlugMaxLen THEN TrimHyphens(SubSeq(s, 1, SlugMaxLen)) ELSE s

Sanitize(input) ==
    LET lower    == [i \in 1 .. Len(input) |-> ToLower(input[i])]
        hyphened == ReplaceRuns(lower, {c \in Chars : IsSpaceOrUnderscore(c)}, <<"-">>, 1)
        cleaned  == ReplaceRuns(hyphened, {c \in Chars : IsNotSlugChar(c)}, <<>>, 1)
        single   == ReplaceRuns(cleaned, {c \in Chars : IsHyphen(c)}, <<"-">>, 1)
        trimmed  == TrimHyphens(single)
    IN  Truncate(trimmed)

RECURSIVE StringsUpTo(_)
StringsUpTo(n) ==
    IF n = 0 THEN {<<>>}
    ELSE LET shorter == StringsUpTo(n - 1)
         IN  shorter \cup {Append(s, c) : s \in shorter, c \in Alphabet}

Pad(p) == [i \in 1 .. p |-> "a"]

\* Inputs: every short string, and every short string after a run of
\* letters that ends next to the length limit.
SanInputs ==
    LET short == StringsUpTo(MaxSanLen)
    IN  short \cup {Pad(p) \o s : p \in SlugMaxLen - MaxSanLen .. SlugMaxLen + 1, s \in short}

InitSan ==
    /\ sanIn = <<>>
    /\ sanOnce = <<>>
    /\ sanTwice = <<>>
    /\ sanStage = 0

\* slug.Sanitize(x)
SanApply(x) ==
    /\ sanStage = 0
    /\ sanIn' = x
    /\ sanOnce' = Sanitize(x)
    /\ sanStage' = 1
    /\ UNCHANGED sanTwice

\* slug.Sanitize applied to its own result
SanAgain ==
    /\ sanStage = 1
    /\ sanTwice' = Sanitize(sanOnce)
    /\ sanStage' = 2
    /\ UNCHANGED <<sanIn, sanOnce>>

NextSan ==
    \/ \E x \in SanInputs : SanApply(x) /\ UNCHANGED <<busVars, concVars, notifyVars, mgrVars, awVars, textVars, slugVars, turnVars, extVars>>
    \/ SanAgain /\ UNCHANGED <<busVars, concVars, notifyVars, mgrVars, awVars, textVars, slugVars, turnVars, extVars>>

(***************************************************************************)
(* package slug: generateSlugText.  The provider lists the models 1 ..     *)
(* MaxModels in GetAvailableModels order; a model has a tag list (or no    *)
(* ModelInfo at all), a service that is obtainable or not, and a slug      *)
(* generation that succeeds or fails.                                      *)
(***************************************************************************)

\* Models the provider lists.
MaxModels == 2

ModelIds == 1 .. MaxModels

\* ModelInfo.Tags split at the commas; NoInfo: GetModelInfo returns nil.
NoInfo == <<"nil">>

TagLists == {NoInfo, <<>>, <<"slug">>, <<"slug-backup">>, <<"slug", "slug-backup">>, <<"other">>}

ModelSetups == [tags : TagLists, svc : BOOLEAN, gen : BOOLEAN]

\* conversationModelID: empty, "predictable", a listed model, or a model the
\* provider does not list; svc and gen describe the model when it is not listed.
ConvModels ==
    {[kind |-> "empty", m |-> 0, svc |-> FALSE, gen |-> FALSE]}
        \cup [kind : {"predictable", "unlisted"}, m : {0}, svc : BOOLEAN, gen : BOOLEAN]
        \cup [kind : {"listed"}, m : ModelIds, svc : {FALSE}, gen : {FALSE}]

TextInputs == [models : [ModelIds -> ModelSetups], conv : ConvModels]

\* Mutant of hasTag: a tag matches when the entry merely starts with it.
hasTag_Prefix(tags, tag) ==
    \E i \in 1 .. Len(tags) : tags[i] = tag \/ (tag = "slug" /\ tags[i] = "slug-backup")

\* hasTag: the comma-separated list contains exactly the tag.
hasTag(tags, tag) == \E i \in 1 .. Len(tags) : tags[i] = tag

TextCall(via, m) == [via |-> via, m |-> m]

TextOk(by, trace) == [ok |-> TRUE, err |-> "", by |-> by, trace |-> trace]

TextErr(err, trace) == [ok |-> FALSE, err |-> err, by |-> 0, trace |-> trace]

\* return callSlugLLM(ctx, llmService, userMessage)
ReturnCall(genOk, call, trace) ==
    IF genOk THEN TextOk(call.m, Append(trace, call))
    ELSE TextErr("generation failed", Append(trace, call))

\* for _, modelID := range llmProvider.GetAvailableModels() { ... }
RECURSIVE TryTagged(_, _, _, _)
TryTagged(in, tag, m, trace) ==
    IF m > MaxModels THEN TextErr("", trace)
    ELSE LET setup == in.models[m]
         IN  IF setup.tags = NoInfo \/ ~hasTag(setup.tags, tag)
             THEN TryTagged(in, tag, m + 1, trace)
             ELSE IF ~setup.svc THEN TryTagged(in, tag, m + 1, trace)
             ELSE IF setup.gen THEN TextOk(m, Append(trace, TextCall(tag, m)))
             ELSE TryTagged(in, tag, m + 1, Append(trace, TextCall(tag, m)))

\* for _, tag := range []string{"slug", "slug-backup"} { ... }
TryTags(in) ==
    LET slugPass == TryTagged(in, "slug", 1, <<>>)
    IN  IF slugPass.ok THEN slugPass ELSE TryTagged(in, "slug-backup", 1, slugPass.trace)

\* llmProvider.GetService(conversationModelID): obtainable, and whether its generation succeeds
ConvService(in) ==
    IF in.conv.kind = "listed"
    THEN [svc |-> in.models[in.conv.m].svc, gen |-> in.models[in.conv.m].gen]
    ELSE [svc |-> in.conv.svc, gen |-> in.conv.gen]

\* The fall-back to the conversation's model and the final error.
TextFallback(in, trace) ==
    IF in.conv.kind \notin {"empty", "predictable"} /\ ConvService(in).svc
    THEN ReturnCall(ConvService(in).gen, TextCall("conversation", in.conv.m), trace)
    ELSE TextErr("no suitable model available for slug generation", trace)

generateSlugText(in) ==
    IF in.conv.kind = "predictable" /\ in.conv.svc
    THEN ReturnCall(in.conv.gen, TextCall("predictable", 0), <<>>)
    ELSE LET tagged == TryTags(in)
         IN  IF tagged.ok THEN tagged ELSE TextFallback(in, tagged.trace)

InitText ==
    /\ txIn = [models |-> [m \in ModelIds |-> [tags |-> NoInfo, svc |-> FALSE, gen |-> FALSE]],
               conv |-> [kind |-> "empty", m |-> 0, svc |-> FALSE, gen |-> FALSE]]
    /\ txOut = TextErr("", <<>>)
    /\ txStage = 0

\* generateSlugText(ctx, llmProvider, logger, userMessage, conversationModelID)
TextGenerate(in) ==
    /\ txStage = 0
    /\ txIn' = in
    /\ txOut' = generateSlugText(in)
    /\ txStage' = 1

NextText ==
    \/ \E in \in TextInputs : TextGenerate(in) /\ UNCHANGED <<busVars, concVars, notifyVars, mgrVars, awVars, sanVars, slugVars, turnVars, extVars>>

(***************************************************************************)
(* package slug: GenerateSlug over the conversations table.  A slug is a   *)
(* sequence of hyphen-separated parts: <<"c">> is "c", <<"c", 1>> is       *)
(* "c-1", <<"c", 1, 1>> is "c-1-1".                                        *)
(***************************************************************************)

\* for attempt := 0; attempt < 100; attempt++
MaxAttempts == 100

\* Rows that already hold the candidate and its suffixes when a run starts.
MaxSeed == 100

SlugConvs == {"k1", "k2", "k3"}

\* GenerateSlug calls that are in their loop at the same time when the
\* table is seeded to the length of the loop.
MaxInLoop == 1

\* conversations.slug IS NULL
NoSlug == <<>>

\* What generateSlugText returns: a candidate, or an error.
Candidates == {<<"c">>, <<"c", 1>>}

RenameSlugs == {<<"c">>, <<"r">>}

\* How many rows SeedRows may put there: few, or about as many as the loop has attempts.
SeedCounts == {1, 2} \cup (MaxAttempts - 1 .. MaxSeed)

SlugDb == [slugOf |-> slugOf, held |-> held]

\* The slugs of all rows but the conversation's own.
TakenFor(db, conv) == db.held \cup ({db.slugOf[k] : k \in SlugConvs \ {conv}} \ {NoSlug})

\* Mutant of UpdateConversationSlug: the table has no unique index on slug.
UpdateConversationSlug_NoIndex(db, conv, slug, dbErr) ==
    IF dbErr THEN [err |-> "db", db |-> db]
    ELSE [err |-> "", db |-> [db EXCEPT !.slugOf[conv] = slug]]

\* db.UpdateConversationSlug: an UPDATE that the unique index on slug
\* rejects when another row holds the slug; dbErr: any other failure.
UpdateConversationSlug(db, conv, slug, dbErr) ==
    IF dbErr THEN [err |-> "db", db |-> db]
    ELSE IF slug \in TakenFor(db, conv) THEN [err |-> "unique", db |-> db]
    ELSE [err |-> "", db |-> [db EXCEPT !.slugOf[conv] = slug]]

\* Mutant of Suffixed: the suffix is the attempt number itself.
Suffixed_OffByOne(baseSlug, attempt) == Append(baseSlug, attempt)

\* slug = fmt.Sprintf("%s-%d", baseSlug, attempt+1)
Suffixed(baseSlug, attempt) == Append(baseSlug, attempt + 1)

\* Mutant of LoopContinues: one attempt more.
LoopContinues_OneMore(attempt) == attempt <= MaxAttempts

\* attempt < 100
LoopContinues(attempt) == attempt < MaxAttempts

\* A GenerateSlug call.  alone: no other writer has changed the table since
\* the call began (kept for the properties; the code has no such field).
GsIdle == [pc |-> "idle", base |-> NoSlug, slug |-> NoSlug, attempt |-> 0, tried |-> {},
           ret |-> NoSlug, err |-> "", alone |-> TRUE]

\* GenerateSlug up to the loop: generateSlugText returned the candidate.
GsEnter(baseSlug) == [GsIdle EXCEPT !.pc = "loop", !.base = baseSlug, !.slug = baseSlug]

\* generateSlugText failed: return "", err
GsTextError == [GsIdle EXCEPT !.pc = "done", !.err = "text"]

\* One pass through the loop body, and the loop test that follows it.
\* The result is the call's new state and the table.
GsAttempt(db, conv, g, dbErr) ==
    LET u == UpdateConversationSlug(db, conv, g.slug, dbErr)
        tried == g.tried \cup {g.slug}
    IN  IF u.err = ""
        THEN [g |-> [g EXCEPT !.pc = "done", !.ret = g.slug, !.tried = tried], db |-> u.db]
        ELSE IF u.err = "unique"
        THEN [g |-> [g EXCEPT !.slug = Suffixed(g.base, g.attempt),
                              !.attempt = g.attempt + 1,
                              !.tried = tried,
                              !.pc = IF LoopContinues(g.attempt + 1) THEN "loop" ELSE "done",
                              !.err = IF LoopContinues(g.attempt + 1) THEN "" ELSE "exhausted"],
              db |-> db]
        ELSE [g |-> [g EXCEPT !.pc = "done", !.tried = tried, !.err = "db"], db |-> db]

InitSlug ==
    /\ slugOf = [k \in SlugConvs |-> NoSlug]
    /\ held = {}
    /\ gs = [k \in SlugConvs |-> GsIdle]

\* n earlier conversations, not followed further, were given the candidate
\* "c" one after another: they hold c, c-1, ..., c-(n-1).
SeedRows(n) ==
    /\ held = {}
    /\ \A k \in SlugConvs : gs[k] = GsIdle /\ slugOf[k] = NoSlug
    /\ held' = {<<"c">>} \cup {<<"c", i>> : i \in 1 .. n - 1}
    /\ UNCHANGED <<slugOf, gs>>

\* GenerateSlug when generateSlugText fails.
GenerateSlugNoText(conv) ==
    /\ gs[conv].pc = "idle"
    /\ gs' = [gs EXCEPT ![conv] = GsTextError]
    /\ UNCHANGED <<slugOf, held>>

\* The rename handler, as a writer that is no GenerateSlug call.
NoCaller == ""

\* The calls after another writer changed the table: every other call
\* that is in its loop is no longer alone.
Disturbed(g, writer, changed) ==
    [k \in SlugConvs |->
        IF changed /\ k # writer /\ g[k].pc = "loop" THEN [g[k] EXCEPT !.alone = FALSE] ELSE g[k]]

\* handleRenameConversation: the slug is sanitized by the handler and
\* written with UpdateConversationSlug; any error is a 500.
Rename(conv, slug) ==
    /\ slugOf' = UpdateConversationSlug(SlugDb, conv, slug, FALSE).db.slugOf
    /\ slugOf' # slugOf
    /\ gs' = Disturbed(gs, NoCaller, TRUE)
    /\ UNCHANGED held

\* GenerateSlug is called and generateSlugText returns a candidate: the
\* call stands before the first UpdateConversationSlug.
CGsStart(conv, baseSlug) ==
    /\ gs[conv].pc = "idle"
    /\ gs' = [gs EXCEPT ![conv] = GsEnter(baseSlug)]
    /\ UNCHANGED <<slugOf, held>>

\* One pass through the loop of a running call: every
\* UpdateConversationSlug is one statement of its own, and other calls and
\* renames run between two passes.
CGsAttempt(conv, dbErr) ==
    /\ gs[conv].pc = "loop"
    /\ LET a == GsAttempt(SlugDb, conv, gs[conv], dbErr)
       IN  /\ gs' = Disturbed([gs EXCEPT ![conv] = a.g], conv, a.db # SlugDb)
           /\ slugOf' = a.db.slugOf
    /\ UNCHANGED held

\* A call may begin: with few seeded rows always, with the table seeded to
\* the length of the loop while fewer than MaxInLoop calls are in the loop.
MayBegin ==
    \/ Cardinality(held) < MaxAttempts - 1
    \/ Cardinality({k \in SlugConvs : gs[k].pc = "loop"}) < MaxInLoop

\* GenerateSlug calls and renames, interleaved, with the table seeded up to
\* the length of the loop; a database failure other than the unique index
\* happens at the first UPDATE or not at all.
NextSlug ==
    \/ \E n \in SeedCounts : SeedRows(n) /\ UNCHANGED <<busVars, concVars, notifyVars, mgrVars, awVars, sanVars, textVars, turnVars, extVars>>
    \/ \E k \in SlugConvs, b \in Candidates : MayBegin /\ CGsStart(k, b) /\ UNCHANGED <<busVars, concVars, notifyVars, mgrVars, awVars, sanVars, textVars, turnVars, extVars>>
    \/ \E k \in SlugConvs : GenerateSlugNoText(k) /\ UNCHANGED <<busVars, concVars, notifyVars, mgrVars, awVars, sanVars, textVars, turnVars, extVars>>
    \/ \E k \in SlugConvs, f \in {-1, 0} : CGsAttempt(k, gs[k].attempt = f) /\ UNCHANGED <<busVars, concVars, notifyVars, mgrVars, awVars, sanVars, textVars, turnVars, extVars>>
    \/ \E k \in SlugConvs, s \in RenameSlugs : Rename(k, s) /\ UNCHANGED <<busVars, concVars, notifyVars, mgrVars, awVars, sanVars, textVars, turnVars, extVars>>

\* The same with few seeded rows and a database failure at any UPDATE.
NextSlugConc ==
    \/ \E n \in {1, 2} : SeedRows(n) /\ UNCHANGED <<busVars, concVars, notifyVars, mgrVars, awVars, sanVars, textVars, turnVars, extVars>>
    \/ \E k \in SlugConvs, b \in Candidates : CGsStart(k, b) /\ UNCHANGED <<busVars, concVars, notifyVars, mgrVars, awVars, sanVars, textVars, turnVars, extVars>>
    \/ \E k \in SlugConvs : GenerateSlugNoText(k) /\ UNCHANGED <<busVars, concVars, notifyVars, mgrVars, awVars, sanVars, textVars, turnVars, extVars>>
    \/ \E k \in SlugConvs, e \in BOOLEAN : CGsAttempt(k, e) /\ UNCHANGED <<busVars, concVars, notifyVars, mgrVars, awVars, sanVars, textVars, turnVars, extVars>>
    \/ \E k \in SlugConvs, s \in RenameSlugs : Rename(k, s) /\ UNCHANGED <<busVars, concVars, notifyVars, mgrVars, awVars, sanVars, textVars, turnVars, extVars>>

(***************************************************************************)
(* The conversation manager and the handlers that drive it, for the        *)
(* conversation "c1".  The manager's own code is not part of the sources   *)
(* modelled here; its turn loop, AcceptUserMessage, CancelConversation and *)
(* StopLoop follow the specification (section 4.E).  A turn worker is      *)
(* named after the chat request that started it.                           *)
(***************************************************************************)

\* Entries a run appends to the log.
MaxLog == 6

\* The clock's last tick, in units of fifteen minutes.
MaxTurnTime == 3

\* 30*time.Minute, in units of fifteen minutes.
EvictAfter == 2

TurnConv == "c1"

\* The requests that chat on the conversation.
ChatRequests == {"h1", "h2"}

MgrIds == 1 .. Cardinality(Callers)

LogEntry(seq, type, eot, tools) == [seq |-> seq, type |-> type, eot |-> eot, tools |-> tools]

\* Mutant of NextSeq: the first sequence id is 1.
NextSeq_FromOne(log) ==
    IF log = <<>> THEN 1
    ELSE 1 + CHOOSE s \in {log[i].seq : i \in 1 .. Len(log)} : \A i \in 1 .. Len(log) : log[i].seq <= s

\* sequence_id = max(existing) + 1, from 0
NextSeq(log) ==
    IF log = <<>> THEN 0
    ELSE 1 + CHOOSE s \in {log[i].seq : i \in 1 .. Len(log)} : \A i \in 1 .. Len(log) : log[i].seq <= s

\* s.db.CreateMessage: one transaction that gives the entry the next sequence id.
CreateMessage(log, type, eot, tools) == Append(log, LogEntry(NextSeq(log), type, eot, tools))

\* toAPIMessages: EndOfTurn is set for agent entries only.
LogApi(log) == [i \in 1 .. Len(log) |-> ApiMsg(log[i].type, log[i].eot)]

\* is_first_message: the log held no user entry before this one.
IsFirstMessage(log) == \A i \in 1 .. Len(log) : log[i].type # "user"

\* current_turn of a manager without a turn.
NoTurn == "none"

\* A chat request that started no worker.
NoWorker == [pc |-> "none", cancelled |-> FALSE, touch |-> FALSE, mgr |-> NoMgr]

InFlight(m) == turn[m] # NoTurn

InitTurn ==
    /\ tlog = <<>>
    /\ turn = [m \in MgrIds |-> NoTurn]
    /\ workers = [w \in Callers |-> NoWorker]
    /\ chat = [h \in Callers |-> "new"]
    /\ first = [h \in Callers |-> FALSE]
    /\ cancelPc = "idle"
    /\ cancelTurn = NoTurn
    /\ cancelMgr = NoMgr
    /\ turnNow = 0
    /\ lastActivity = [m \in MgrIds |-> 0]

\* Fifteen minutes pass.
TurnTick ==
    /\ turnNow < MaxTurnTime
    /\ turnNow' = turnNow + 1
    /\ UNCHANGED <<tlog, turn, workers, chat, first, cancelPc, cancelTurn, cancelMgr, lastActivity>>

\* getOrCreateConversationManager's fn with the managers' activity times:
\* an existing manager is touched, a new one starts its activity time now.
TurnLookup(h) ==
    /\ FnLookup(h)
    /\ lastActivity' = [lastActivity EXCEPT ![fnMgr'[h]] = turnNow]
    /\ UNCHANGED <<tlog, turn, workers, chat, first, cancelPc, cancelTurn, cancelMgr, turnNow>>

\* recordMessage, the s.mu section: the manager the map has for the
\* conversation, if any, is touched.
TouchActive(last) ==
    IF activeConversations[TurnConv] # NoMgr
    THEN [last EXCEPT ![activeConversations[TurnConv]] = turnNow]
    ELSE last

\* handleChatConversation after getOrCreateConversationManager returned:
\* an error is answered with a 500; otherwise manager.AcceptUserMessage
\* refuses while the manager has a turn in progress and else makes the
\* turn's handle and records the user entry, up to CreateMessage.
ChatAccept(h) ==
    /\ hpc[h] = "done"
    /\ chat[h] = "new"
    /\ IF result[h].err THEN TRUE ELSE InFlight(result[h].mgr) \/ Len(tlog) < MaxLog - 1
    /\ IF result[h].err
       THEN chat' = [chat EXCEPT ![h] = "failed"] /\ UNCHANGED <<tlog, turn, workers, first>>
       ELSE IF InFlight(result[h].mgr)
       THEN chat' = [chat EXCEPT ![h] = "rejected"] /\ UNCHANGED <<tlog, turn, workers, first>>
       ELSE /\ tlog' = CreateMessage(tlog, "user", "nil", FALSE)
            /\ turn' = [turn EXCEPT ![result[h].mgr] = h]
            /\ workers' = [workers EXCEPT ![h] = [pc |-> "start", cancelled |-> FALSE, touch |-> FALSE, mgr |-> result[h].mgr]]
            /\ first' = [first EXCEPT ![h] = IsFirstMessage(tlog)]
            /\ chat' = [chat EXCEPT ![h] = "recording"]
    /\ UNCHANGED <<cancelPc, cancelTurn, cancelMgr, turnNow, lastActivity>>

\* AcceptUserMessage from recordMessage's s.mu section on: the manager in
\* the map is touched, the turn worker is started and the handler gets
\* is_first_message.
ChatStart(h) ==
    /\ chat[h] = "recording"
    /\ smu = "free"
    /\ lastActivity' = TouchActive(lastActivity)
    /\ workers' = [workers EXCEPT ![h].pc = "llm"]
    /\ chat' = [chat EXCEPT ![h] = "accepted"]
    /\ UNCHANGED <<tlog, turn, first, cancelPc, cancelTurn, cancelMgr, turnNow>>

\* The worker's model call returns; the agent entry is appended.  Without
\* tool uses the turn ends once the entry is recorded.
TurnLLM(w, tools) ==
    /\ workers[w].pc = "llm"
    /\ ~workers[w].cancelled
    /\ ~workers[w].touch
    /\ Len(tlog) < MaxLog - 1
    /\ tlog' = CreateMessage(tlog, "agent", IF tools THEN "false" ELSE "true", tools)
    /\ workers' = [workers EXCEPT ![w].pc = IF tools THEN "tool" ELSE "end", ![w].touch = TRUE]
    /\ UNCHANGED <<turn, chat, first, cancelPc, cancelTurn, cancelMgr, turnNow, lastActivity>>

\* The tools have run; one tool-result entry is appended and the loop goes on.
TurnTool(w) ==
    /\ workers[w].pc = "tool"
    /\ ~workers[w].cancelled
    /\ ~workers[w].touch
    /\ Len(tlog) < MaxLog - 1
    /\ tlog' = CreateMessage(tlog, "tool", "nil", FALSE)
    /\ workers' = [workers EXCEPT ![w].pc = "llm", ![w].touch = TRUE]
    /\ UNCHANGED <<turn, chat, first, cancelPc, cancelTurn, cancelMgr, turnNow, lastActivity>>

\* An unrecoverable failure: a single error entry ends the turn.
TurnError(w) ==
    /\ workers[w].pc \in {"llm", "tool"}
    /\ ~workers[w].cancelled
    /\ ~workers[w].touch
    /\ Len(tlog) < MaxLog - 1
    /\ tlog' = CreateMessage(tlog, "error", "nil", FALSE)
    /\ workers' = [workers EXCEPT ![w].pc = "end", ![w].touch = TRUE]
    /\ UNCHANGED <<turn, chat, first, cancelPc, cancelTurn, cancelMgr, turnNow, lastActivity>>

\* The worker returns: its completion signal fires and its manager's
\* current_turn, if it is still this turn, is cleared.
Completed(w) ==
    /\ workers' = [workers EXCEPT ![w].pc = "none", ![w].touch = FALSE]
    /\ turn' = IF turn[workers[w].mgr] = w THEN [turn EXCEPT ![workers[w].mgr] = NoTurn] ELSE turn

\* The worker sees its cancel token fired and stops; as for any
\* unrecoverable failure it may first append its own error entry.
TurnStop(w, record) ==
    /\ workers[w].pc \in {"llm", "tool"}
    /\ workers[w].cancelled
    /\ ~workers[w].touch
    /\ IF record
       THEN /\ Len(tlog) < MaxLog - 1
            /\ tlog' = CreateMessage(tlog, "error", "nil", FALSE)
            /\ workers' = [workers EXCEPT ![w].pc = "end", ![w].touch = TRUE]
            /\ turn' = turn
       ELSE tlog' = tlog /\ Completed(w)
    /\ UNCHANGED <<chat, first, cancelPc, cancelTurn, cancelMgr, turnNow, lastActivity>>

\* recordMessage of the worker's entry, the s.mu section; after the entry
\* that ends the turn the worker returns.
TurnTouch(w) ==
    /\ workers[w].touch
    /\ smu = "free"
    /\ lastActivity' = TouchActive(lastActivity)
    /\ IF workers[w].pc = "end"
       THEN Completed(w)
       ELSE workers' = [workers EXCEPT ![w].touch = FALSE] /\ turn' = turn
    /\ UNCHANGED <<tlog, chat, first, cancelPc, cancelTurn, cancelMgr, turnNow>>

\* handleCancelConversation, the s.mu section: the manager is looked up in
\* the map; without one the answer is "no_active_conversation".
CancelBegin ==
    /\ cancelPc = "idle"
    /\ smu = "free"
    /\ IF activeConversations[TurnConv] = NoMgr
       THEN cancelPc' = "done" /\ cancelMgr' = cancelMgr
       ELSE cancelPc' = "found" /\ cancelMgr' = activeConversations[TurnConv]
    /\ UNCHANGED <<tlog, turn, workers, chat, first, cancelTurn, turnNow, lastActivity>>

\* manager.CancelConversation, called once s.mu is released, on the
\* manager the handler holds, whether or not the map still has it: the
\* token of the turn it has in flight is fired and the wait for the turn's
\* completion signal starts; without a turn there is nothing to cancel.
CancelConversation ==
    /\ cancelPc = "found"
    /\ IF InFlight(cancelMgr)
       THEN /\ workers' = [workers EXCEPT ![turn[cancelMgr]].cancelled = TRUE]
            /\ cancelTurn' = turn[cancelMgr]
            /\ cancelPc' = "wait"
       ELSE cancelPc' = "done" /\ UNCHANGED <<workers, cancelTurn>>
    /\ UNCHANGED <<tlog, turn, chat, first, cancelMgr, turnNow, lastActivity>>

\* Mutant of CancelFinish: a wait that timed out records nothing.
CancelFinish_SilentTimeout(timedOut) ==
    /\ cancelPc = "wait"
    /\ timedOut = (workers[cancelTurn].pc # "none")
    /\ tlog' = IF timedOut THEN tlog ELSE CreateMessage(tlog, "error", "nil", FALSE)
    /\ cancelPc' = "touch"
    /\ UNCHANGED <<turn, workers, chat, first, cancelTurn, cancelMgr, turnNow, lastActivity>>

\* CancelConversation's wait ends, with the worker's completion signal or,
\* the worker still running, with the end of the bounded time; either way
\* the error entry that notes the cancellation is recorded, up to
\* CreateMessage.
CancelFinish(timedOut) ==
    /\ cancelPc = "wait"
    /\ timedOut = (workers[cancelTurn].pc # "none")
    /\ tlog' = CreateMessage(tlog, "error", "nil", FALSE)
    /\ cancelPc' = "touch"
    /\ UNCHANGED <<turn, workers, chat, first, cancelTurn, cancelMgr, turnNow, lastActivity>>

\* recordMessage of the cancellation's entry, the s.mu section; the
\* handler then answers "cancelled".
CancelTouch ==
    /\ cancelPc = "touch"
    /\ smu = "free"
    /\ lastActivity' = TouchActive(lastActivity)
    /\ cancelPc' = "done"
    /\ UNCHANGED <<tlog, turn, workers, chat, first, cancelTurn, cancelMgr, turnNow>>

\* now.Sub(lastActivity) > 30*time.Minute, for a manager of the map.
TurnExpired(m) == m # NoMgr /\ turnNow - lastActivity[m] > EvictAfter

\* manager.stopLoop(): the final shutdown fires the token of the turn the
\* manager has in flight.
StopLoop(ws, m) == IF InFlight(m) THEN [ws EXCEPT ![turn[m]].cancelled = TRUE] ELSE ws

\* Server.Cleanup, under s.mu: a manager whose last activity is more than
\* thirty minutes old is stopped and leaves the map, whether or not it has
\* a turn in flight.
TurnCleanup ==
    /\ smu = "free"
    /\ activeConversations' = [c \in ConvIds |-> IF TurnExpired(activeConversations[c]) THEN NoMgr ELSE activeConversations[c]]
    /\ workers' = IF TurnExpired(activeConversations[TurnConv]) THEN StopLoop(workers, activeConversations[TurnConv]) ELSE workers
    /\ UNCHANGED <<tlog, turn, chat, first, cancelPc, cancelTurn, cancelMgr, turnNow, lastActivity>>
    /\ UNCHANGED <<sfCalls, smu, hpc, arg, fnMgr, result, created, hydrated, failed>>

\* Mutant of StartsSlug: every accepted message starts a slug goroutine.
StartsSlug_Always(accepted, firstMessage) == accepted

\* if firstMessage { go func() { slug.GenerateSlug(...) }() }, reached
\* only when AcceptUserMessage returned no error.
StartsSlug(accepted, firstMessage) == accepted /\ firstMessage

\* handleChatConversation / handleNewConversation once AcceptUserMessage
\* has recorded the user entry: it returns and the handler decides on the
\* slug goroutine.
handleChatConversation(h) ==
    /\ ChatStart(h)
    /\ slugPc' = IF StartsSlug(chat'[h] = "accepted", first[h])
                 THEN [slugPc EXCEPT ![h] = "running"]
                 ELSE slugPc

\* The slug goroutine ends: GenerateSlug returned a slug, or it failed or
\* ran into its 15 s timeout, which is only logged.
SlugGoroutine(h, ok) ==
    /\ slugPc[h] = "running"
    /\ slugPc' = [slugPc EXCEPT ![h] = IF ok THEN "ok" ELSE "failed"]

InitSide == slugPc = [h \in Callers |-> "none"]

NextTurn ==
    \/ TurnTick /\ UNCHANGED <<busVars, concVars, notifyVars, mgrVars, awVars, sanVars, textVars, slugVars, extVars>>
    \/ \E h \in ChatRequests : DoCall(h, TurnConv) /\ UNCHANGED <<busVars, concVars, notifyVars, appVars>>
    \/ \E h \in ChatRequests : TurnLookup(h) /\ UNCHANGED <<busVars, concVars, notifyVars, awVars, sanVars, textVars, slugVars, extVars>>
    \/ \E h \in ChatRequests, ok \in BOOLEAN : FnHydrate(h, ok) /\ UNCHANGED <<busVars, concVars, notifyVars, appVars>>
    \/ \E h \in ChatRequests : DoReturn(h) /\ UNCHANGED <<busVars, concVars, notifyVars, appVars>>
    \/ \E h \in ChatRequests : ChatAccept(h) /\ UNCHANGED <<busVars, concVars, notifyVars, mgrVars, awVars, sanVars, textVars, slugVars, extVars>>
    \/ \E h \in ChatRequests : handleChatConversation(h) /\ UNCHANGED <<busVars, concVars, notifyVars, mgrVars, awVars, sanVars, textVars, slugVars, rtVars, lateVars>>
    \/ \E h \in ChatRequests, ok \in BOOLEAN : SlugGoroutine(h, ok) /\ UNCHANGED <<busVars, concVars, notifyVars, mgrVars, awVars, sanVars, textVars, slugVars, turnVars, rtVars, lateVars>>
    \/ \E w \in ChatRequests, tools \in BOOLEAN : TurnLLM(w, tools) /\ UNCHANGED <<busVars, concVars, notifyVars, mgrVars, awVars, sanVars, textVars, slugVars, extVars>>
    \/ \E w \in ChatRequests : TurnTool(w) /\ UNCHANGED <<busVars, concVars, notifyVars, mgrVars, awVars, sanVars, textVars, slugVars, extVars>>
    \/ \E w \in ChatRequests : TurnError(w) /\ UNCHANGED <<busVars, concVars, notifyVars, mgrVars, awVars, sanVars, textVars, slugVars, extVars>>
    \/ \E w \in ChatRequests, record \in BOOLEAN : TurnStop(w, record) /\ UNCHANGED <<busVars, concVars, notifyVars, mgrVars, awVars, sanVars, textVars, slugVars, extVars>>
    \/ \E w \in ChatRequests : TurnTouch(w) /\ UNCHANGED <<busVars, concVars, notifyVars, mgrVars, awVars, sanVars, textVars, slugVars, extVars>>
    \/ CancelBegin /\ UNCHANGED <<busVars, concVars, notifyVars, mgrVars, awVars, sanVars, textVars, slugVars, extVars>>
    \/ CancelConversation /\ UNCHANGED <<busVars, concVars, notifyVars, mgrVars, awVars, sanVars, textVars, slugVars, extVars>>
    \/ \E timedOut \in BOOLEAN : CancelFinish(timedOut) /\ UNCHANGED <<busVars, concVars, notifyVars, mgrVars, awVars, sanVars, textVars, slugVars, extVars>>
    \/ CancelTouch /\ UNCHANGED <<busVars, concVars, notifyVars, mgrVars, awVars, sanVars, textVars, slugVars, extVars>>
    \/ TurnCleanup /\ UNCHANGED <<busVars, concVars, notifyVars, awVars, sanVars, textVars, slugVars, extVars>>

\* Hydrate returns and s.mu is released, AcceptUserMessage returns
\* promptly, the worker honours its cancel token, recordMessage gets s.mu,
\* and CancelConversation's wait is bounded: these steps are always taken.
FairTurn ==
    /\ \A h \in ChatRequests : WF_vars((\E ok \in BOOLEAN : FnHydrate(h, ok)) /\ UNCHANGED <<busVars, concVars, notifyVars, appVars>>)
    /\ \A h \in ChatRequests : WF_vars(handleChatConversation(h) /\ UNCHANGED <<busVars, concVars, notifyVars, mgrVars, awVars, sanVars, textVars, slugVars, rtVars, lateVars>>)
    /\ \A w \in ChatRequests : WF_vars(TurnStop(w, FALSE) /\ UNCHANGED <<busVars, concVars, notifyVars, mgrVars, awVars, sanVars, textVars, slugVars, extVars>>)
    /\ \A w \in ChatRequests : WF_vars(TurnTouch(w) /\ UNCHANGED <<busVars, concVars, notifyVars, mgrVars, awVars, sanVars, textVars, slugVars, extVars>>)
    /\ WF_vars((\E timedOut \in BOOLEAN : CancelFinish(timedOut)) /\ UNCHANGED <<busVars, concVars, notifyVars, mgrVars, awVars, sanVars, textVars, slugVars, extVars>>)
    /\ WF_vars(CancelTouch /\ UNCHANGED <<busVars, concVars, notifyVars, mgrVars, awVars, sanVars, textVars, slugVars, extVars>>)

(***************************************************************************)
(* isPort80.  A URL string is a sequence of tokens, each standing for the  *)
(* characters it spells; url.Parse is followed token by token.             *)
(***************************************************************************)

\* Tokens made of letters, dots and hyphens only, starting with a letter.
WordTokens == {"http", "HTTP", "https", "ftp", "example.com", "x"}

\* Tokens that start with a digit; the first three are digits only.
DigitTokens == {"80", "443", "8080"}

DigitFirstTokens == DigitTokens \cup {"127.0.0.1"}

\* A control character, which url.Parse refuses anywhere in the string.
CtlToken == "\\x7f"

\* The parts a test URL is put together from.
UrlShapes ==
    [scheme : {"", "http", "HTTP", "https", "ftp"},
     slashes : BOOLEAN,
     host : {"", "example.com", "127.0.0.1"},
     port : {<<>>, <<":", "80">>, <<":", "443">>, <<":", "8080">>, <<":", "x">>, <<":">>},
     path : BOOLEAN,
     ctl : BOOLEAN]

\* The string of a shape: scheme ":" "//" host ":" port "/x", with a
\* control character at the end when the shape asks for one.
Render(u) ==
    (IF u.scheme = "" THEN <<>> ELSE <<u.scheme, ":">>)
    \o (IF u.slashes THEN <<"//">> ELSE <<>>)
    \o (IF u.host = "" THEN <<>> ELSE <<u.host>>)
    \o u.port
    \o (IF u.path THEN <<"/", "x">> ELSE <<>>)
    \o (IF u.ctl THEN <<CtlToken>> ELSE <<>>)

\* strings.ToLower on a scheme.
LowerScheme(w) == IF w = "HTTP" THEN "http" ELSE w

NoUrl == [err |-> TRUE, scheme |-> "", port |-> ""]

\* getScheme: the characters before the first ":" when they are all scheme
\* characters and the first is a letter.  Result: <<error, colon position>>,
\* position 0 for a string without scheme.
RECURSIVE getScheme(_, _)
getScheme(s, i) ==
    IF i > Len(s) THEN <<FALSE, 0>>
    ELSE IF s[i] \in WordTokens THEN getScheme(s, i + 1)
    ELSE IF s[i] \in DigitFirstTokens THEN (IF i = 1 THEN <<FALSE, 0>> ELSE getScheme(s, i + 1))
    ELSE IF s[i] = ":" THEN (IF i = 1 THEN <<TRUE, 0>> ELSE <<FALSE, i>>)
    ELSE <<FALSE, 0>>

\* The tokens of s before the first "/" or "//" at or after position i.
RECURSIVE UpToSlash(_, _)
UpToSlash(s, i) ==
    IF i > Len(s) \/ s[i] \in {"/", "//"} THEN <<>>
    ELSE <<s[i]>> \o UpToSlash(s, i + 1)

\* The position of the last ":" of s, 0 when there is none.
RECURSIVE LastColon(_, _)
LastColon(s, i) ==
    IF i = 0 THEN 0
    ELSE IF s[i] = ":" THEN i
    ELSE LastColon(s, i - 1)

\* parseHost / validOptionalPort, and URL.Port: after the last colon of
\* the authority only digits may follow.
ParseAuthority(scheme, auth) ==
    LET c == LastColon(auth, Len(auth))
        after == SubSeq(auth, c + 1, Len(auth))
    IN  IF c = 0 THEN [err |-> FALSE, scheme |-> scheme, port |-> ""]
        ELSE IF \E k \in 1 .. Len(after) : after[k] \notin DigitTokens THEN NoUrl
        ELSE IF after = <<>> THEN [err |-> FALSE, scheme |-> scheme, port |-> ""]
        ELSE IF Len(after) = 1 THEN [err |-> FALSE, scheme |-> scheme, port |-> after[1]]
        ELSE [err |-> FALSE, scheme |-> scheme, port |-> "many"]

\* url.Parse, as far as isPort80 reads its result.
UrlParse(s) ==
    IF \E i \in 1 .. Len(s) : s[i] = CtlToken THEN NoUrl
    ELSE
    LET g == getScheme(s, 1)
        colon == g[2]
        scheme == IF colon = 0 \/ colon > 2 THEN (IF colon = 0 THEN "" ELSE "other") ELSE LowerScheme(s[1])
        rest == SubSeq(s, colon + 1, Len(s))
    IN  IF g[1] THEN NoUrl
        ELSE IF rest = <<>> \/ rest[1] \notin {"/", "//"}
        THEN IF scheme # "" THEN [err |-> FALSE, scheme |-> scheme, port |-> ""]
             ELSE IF ":" \in Range(UpToSlash(rest, 1)) THEN NoUrl
             ELSE [err |-> FALSE, scheme |-> "", port |-> ""]
        ELSE IF rest[1] = "//" /\ ~(scheme = "" /\ Len(rest) >= 2 /\ rest[2] = "/")
        THEN ParseAuthority(scheme, UpToSlash(rest, 2))
        ELSE [err |-> FALSE, scheme |-> scheme, port |-> ""]

\* Mutant of isPort80: the scheme decides even with an explicit port.
isPort80_SchemeFirst(s) ==
    LET parsedURL == UrlParse(s)
    IN  ~parsedURL.err /\ (parsedURL.port = "80" \/ parsedURL.scheme = "http")

isPort80(s) ==
    LET parsedURL == UrlParse(s)
    IN  ~parsedURL.err /\ (parsedURL.port = "80" \/ (parsedURL.port = "" /\ parsedURL.scheme = "http"))

UrlUnset == <<>>

InitPort ==
    /\ urlIn = <<>>
    /\ urlOut = UrlUnset

\* isPort80 is called with a string.
PortCall(u) ==
    /\ urlIn' = <<u, Render(u)>>
    /\ urlOut' = <<isPort80(Render(u))>>

NextPort == \E u \in UrlShapes : PortCall(u) /\ UNCHANGED <<coreVars, brVars, conVars, dlVars, ordVars>>

(***************************************************************************)
(* The browser runtime: BrowseTools.GetBrowserContext, the idle timer,     *)
(* Close, and the combined tool's dispatch.                                *)
(***************************************************************************)

\* Tool invocations of a run.
MaxTools == 3

\* The clock's last tick.
MaxTime == 5

\* b.idleTimeout, in ticks.
IdleTimeout == 2

KnownActions == {"navigate", "eval", "resize", "screenshot", "console_logs", "clear_console_logs"}

UrlPort80 == <<"http", ":", "//", "example.com">>

UrlOther == <<"https", ":", "//", "example.com", ":", "443">>

ToolIn(action, url, w, h) == [action |-> action, url |-> url, w |-> w, h |-> h]

ToolInputs ==
    {ToolIn("navigate", u, 0, 0) : u \in {UrlPort80, UrlOther}}
    \cup {ToolIn("resize", <<>>, d[1], d[2]) : d \in {<<1, 1>>, <<0, 1>>, <<1, 0>>, <<0 - 1, 0 - 1>>}}
    \cup {ToolIn(a, <<>>, 0, 0) : a \in (KnownActions \ {"navigate", "resize"}) \cup {"bogus"}}

\* navigateRun: if isPort80(input.URL) { return error }
navigateRejects(in) == isPort80(in.url)

\* Mutant of resizeRejects: only a resize with both dimensions wrong is refused.
resizeRejects_Both(in) == in.w <= 0 /\ in.h <= 0

\* resizeRun: if input.Width <= 0 || input.Height <= 0 { return error }
resizeRejects(in) == in.w <= 0 \/ in.h <= 0

\* combinedRun's switch and the checks of navigateRun and resizeRun that
\* come before GetBrowserContext.
Rejects(in) ==
    \/ in.action \notin KnownActions
    \/ in.action = "navigate" /\ navigateRejects(in)
    \/ in.action = "resize" /\ resizeRejects(in)

NoTimer == [st |-> "nil", at |-> 0]

FiredTimer == [st |-> "fired", at |-> 0]

\* time.AfterFunc(b.idleTimeout, b.idleShutdown), after stopping the old timer.
resetIdleTimerLocked == [st |-> "armed", at |-> now + IdleTimeout]

\* Mutant of DeadCheck: the stored context is never found dead.
DeadCheck_Never(ctx) == FALSE

\* b.browserCtx.Err() != nil
DeadCheck(ctx) == ctx \notin alive

\* Mutant of StartStores: a failed start leaves its context stored.
StartStores_Always(ok, id) == id

\* The value of b.browserCtx after a start: it is assigned only when the
\* start, the viewport and the download configuration succeeded.
StartStores(ok, id) == IF ok THEN id ELSE 0

NoGbc == [n |-> 0, phase |-> "none", ctx |-> 0, old |-> 0, oldDead |-> FALSE]

NoTool == [in |-> ToolIn("", <<>>, 0, 0), out |-> "none"]

InitBrowser ==
    /\ browserCtx = 0
    /\ alive = {}
    /\ started = 0
    /\ bmux = "free"
    /\ idleTimer = NoTimer
    /\ pending = 0
    /\ now = 0
    /\ lastUse = 0
    /\ gbc = NoGbc
    /\ tool = NoTool
    /\ toolCalls = 0
    /\ closedBy = "none"

\* Time passes; an armed timer goes off at its deadline at the latest.
Tick ==
    /\ now < MaxTime
    /\ ~(idleTimer.st = "armed" /\ idleTimer.at <= now)
    /\ now' = now + 1
    /\ UNCHANGED <<browserCtx, alive, started, bmux, idleTimer, pending, lastUse, gbc, tool, toolCalls, closedBy>>

\* The armed timer goes off: its idleShutdown is started on its own goroutine.
TimerFires ==
    /\ idleTimer.st = "armed"
    /\ idleTimer.at <= now
    /\ idleTimer' = FiredTimer
    /\ pending' = pending + 1
    /\ UNCHANGED <<browserCtx, alive, started, bmux, now, lastUse, gbc, tool, toolCalls, closedBy>>

\* Mutant of closeBrowserLocked: the contexts are dropped without being cancelled.
closeBrowserLocked_NoCancel(by) ==
    /\ idleTimer' = NoTimer
    /\ alive' = alive
    /\ browserCtx' = 0
    /\ closedBy' = IF browserCtx # 0 THEN by ELSE closedBy

\* closeBrowserLocked: stop the timer, cancel the contexts, clear the fields.
closeBrowserLocked(by) ==
    /\ idleTimer' = NoTimer
    /\ alive' = alive \ {browserCtx}
    /\ browserCtx' = 0
    /\ closedBy' = IF browserCtx # 0 THEN by ELSE closedBy

\* idleShutdown gets b.mux and closes the browser unless there is none.
idleShutdown ==
    /\ pending > 0
    /\ bmux = "free"
    /\ pending' = pending - 1
    /\ IF browserCtx = 0
       THEN UNCHANGED <<browserCtx, alive, idleTimer, closedBy>>
       ELSE closeBrowserLocked("idle")
    /\ UNCHANGED <<started, bmux, now, lastUse, gbc, tool, toolCalls>>

\* Close
Close ==
    /\ bmux = "free"
    /\ closeBrowserLocked("close")
    /\ UNCHANGED <<started, bmux, pending, now, lastUse, gbc, tool, toolCalls>>

\* The browser process dies: its context is cancelled, the fields stay.
Crash ==
    /\ browserCtx # 0
    /\ browserCtx \in alive
    /\ alive' = alive \ {browserCtx}
    /\ UNCHANGED <<browserCtx, started, bmux, idleTimer, pending, now, lastUse, gbc, tool, toolCalls, closedBy>>

\* A tool invocation up to the point where GetBrowserContext either has
\* returned the live stored context or is starting a browser under b.mux.
ToolCall(in) ==
    /\ toolCalls < MaxTools
    /\ bmux = "free"
    /\ toolCalls' = toolCalls + 1
    /\ IF Rejects(in)
       THEN /\ tool' = [in |-> in, out |-> "error"]
            /\ UNCHANGED <<browserCtx, alive, started, bmux, idleTimer, pending, now, lastUse, gbc, closedBy>>
       ELSE IF browserCtx # 0 /\ ~DeadCheck(browserCtx)
       THEN /\ idleTimer' = resetIdleTimerLocked
            /\ lastUse' = now
            /\ gbc' = [n |-> gbc.n + 1, phase |-> "ok", ctx |-> browserCtx, old |-> browserCtx, oldDead |-> FALSE]
            /\ tool' = [in |-> in, out |-> "ok"]
            /\ UNCHANGED <<browserCtx, alive, started, bmux, pending, now, closedBy>>
       ELSE /\ IF browserCtx # 0
               THEN closeBrowserLocked("crash")
               ELSE UNCHANGED <<browserCtx, alive, idleTimer, closedBy>>
            /\ bmux' = "starting"
            /\ gbc' = [n |-> gbc.n + 1, phase |-> "starting", ctx |-> 0, old |-> browserCtx, oldDead |-> browserCtx # 0]
            /\ tool' = [in |-> in, out |-> "starting"]
            /\ UNCHANGED <<started, pending, now, lastUse>>

\* The start ends: chromedp.Run, the viewport and the download
\* configuration all worked, or one of them failed and the new contexts
\* were cancelled.
StartEnd(ok) ==
    /\ bmux = "starting"
    /\ started' = started + 1
    /\ browserCtx' = StartStores(ok, started + 1)
    /\ alive' = IF ok THEN alive \cup {started + 1} ELSE alive
    /\ idleTimer' = IF ok THEN resetIdleTimerLocked ELSE idleTimer
    /\ lastUse' = IF ok THEN now ELSE lastUse
    /\ gbc' = [gbc EXCEPT !.phase = IF ok THEN "ok" ELSE "err", !.ctx = IF ok THEN started + 1 ELSE 0]
    /\ tool' = [tool EXCEPT !.out = IF ok THEN "ok" ELSE "starterr"]
    /\ bmux' = "free"
    /\ UNCHANGED <<pending, now, toolCalls, closedBy>>

NextBrowser ==
    \/ Tick /\ UNCHANGED <<coreVars, urlVars, conVars, dlVars, ordVars>>
    \/ TimerFires /\ UNCHANGED <<coreVars, urlVars, conVars, dlVars, ordVars>>
    \/ idleShutdown /\ UNCHANGED <<coreVars, urlVars, conVars, dlVars, ordVars>>
    \/ Close /\ UNCHANGED <<coreVars, urlVars, conVars, dlVars, ordVars>>
    \/ Crash /\ UNCHANGED <<coreVars, urlVars, conVars, dlVars, ordVars>>
    \/ \E in \in ToolInputs : ToolCall(in) /\ UNCHANGED <<coreVars, urlVars, conVars, dlVars, ordVars>>
    \/ \E ok \in BOOLEAN : StartEnd(ok) /\ UNCHANGED <<coreVars, urlVars, conVars, dlVars, ordVars>>

\* A fired timer's callback runs once b.mux is free, and a start ends.
FairBrowser ==
    /\ WF_vars(TimerFires /\ UNCHANGED <<coreVars, urlVars, conVars, dlVars, ordVars>>)
    /\ WF_vars(idleShutdown /\ UNCHANGED <<coreVars, urlVars, conVars, dlVars, ordVars>>)
    /\ WF_vars((\E ok \in BOOLEAN : StartEnd(ok)) /\ UNCHANGED <<coreVars, urlVars, conVars, dlVars, ordVars>>)

(***************************************************************************)
(* The console-log buffer: captureConsoleLog, console_logs and             *)
(* clear_console_logs.                                                     *)
(***************************************************************************)

\* Console events of a run.
MaxEvents == 103

\* maxConsoleLogs: 100
maxConsoleLogs == 100

\* Mutant of TrimLogs: the oldest entries are kept.
TrimLogs_Oldest(logs) ==
    IF Len(logs) > maxConsoleLogs
    THEN SubSeq(logs, 1, maxConsoleLogs)
    ELSE logs

\* b.consoleLogs = b.consoleLogs[len(b.consoleLogs)-b.maxConsoleLogs:]
TrimLogs(logs) ==
    IF Len(logs) > maxConsoleLogs
    THEN SubSeq(logs, Len(logs) - maxConsoleLogs + 1, Len(logs))
    ELSE logs

NoConOut == [op |-> "none", logs |-> <<>>, count |-> 0]

InitConsole ==
    /\ consoleLogs = <<>>
    /\ captured = <<>>
    /\ conEvents = 0
    /\ conOut = NoConOut

\* captureConsoleLog
captureConsoleLog ==
    /\ conEvents < MaxEvents
    /\ conEvents' = conEvents + 1
    /\ consoleLogs' = TrimLogs(Append(consoleLogs, conEvents + 1))
    /\ captured' = Append(captured, conEvents + 1)
    /\ conOut' = NoConOut

\* recentConsoleLogsRun: the last `limit` entries, 100 when no limit is
\* given; an error when the browser cannot be started.
recentConsoleLogsRun(limitIn, browserOk) ==
    /\ IF browserOk
       THEN LET limit == IF limitIn > 0 THEN limitIn ELSE maxConsoleLogs
                start == IF Len(consoleLogs) > limit THEN Len(consoleLogs) - limit ELSE 0
                logs  == SubSeq(consoleLogs, start + 1, Len(consoleLogs))
            IN  conOut' = [op |-> "read", logs |-> logs, count |-> Len(logs)]
       ELSE conOut' = [op |-> "error", logs |-> <<>>, count |-> 0]
    /\ UNCHANGED <<consoleLogs, captured, conEvents>>

\* clearConsoleLogsRun: the buffer is emptied and its old length
\* reported; an error, and no clear, when the browser cannot be started.
clearConsoleLogsRun(browserOk) ==
    /\ IF browserOk
       THEN /\ consoleLogs' = <<>>
            /\ captured' = <<>>
            /\ conOut' = [op |-> "clear", logs |-> <<>>, count |-> Len(consoleLogs)]
       ELSE /\ conOut' = [op |-> "error", logs |-> <<>>, count |-> 0]
            /\ UNCHANGED <<consoleLogs, captured>>
    /\ UNCHANGED conEvents

NextConsole ==
    \/ captureConsoleLog /\ UNCHANGED <<coreVars, urlVars, brVars, dlVars, ordVars>>
    \/ \E limitIn \in {0, 2}, browserOk \in BOOLEAN : recentConsoleLogsRun(limitIn, browserOk) /\ UNCHANGED <<coreVars, urlVars, brVars, dlVars, ordVars>>
    \/ \E browserOk \in BOOLEAN : clearConsoleLogsRun(browserOk) /\ UNCHANGED <<coreVars, urlVars, brVars, dlVars, ordVars>>

(***************************************************************************)
(* Downloads: the browser's download events and the tools' report of       *)
(* finished downloads.                                                     *)
(***************************************************************************)

\* Tool invocations that report downloads in a run.
MaxReports == 3

Guids == {"g1", "g2", "g3"}

NoDownload == [present |-> FALSE, Completed |-> FALSE, Error |-> ""]

\* &DownloadInfo{GUID: ...}
NewDownload == [present |-> TRUE, Completed |-> FALSE, Error |-> ""]

InitDownloads ==
    /\ downloads = [g \in Guids |-> NoDownload]
    /\ dlState = [g \in Guids |-> "none"]
    /\ dlOuts = <<>>

\* handleDownloadWillBegin; the browser sends it first for a download.
handleDownloadWillBegin(g) ==
    /\ dlState[g] = "none"
    /\ dlState' = [dlState EXCEPT ![g] = "begun"]
    /\ downloads' = [downloads EXCEPT ![g] = NewDownload]
    /\ UNCHANGED dlOuts

\* handleDownloadProgress; the browser sends progress events for a
\* download until one says Completed or Canceled, also for one whose
\* beginning was not seen.
handleDownloadProgress(g, state) ==
    /\ dlState[g] # "done"
    /\ dlState' = [dlState EXCEPT ![g] = IF state = "inProgress" THEN "progress" ELSE "done"]
    /\ LET info == IF downloads[g].present THEN downloads[g] ELSE NewDownload
       IN  downloads' = [downloads EXCEPT ![g] =
               IF state = "completed" THEN [info EXCEPT !.Completed = TRUE]
               ELSE IF state = "canceled" THEN [info EXCEPT !.Completed = TRUE, !.Error = "download canceled"]
               ELSE info]
    /\ UNCHANGED dlOuts

\* The records GetRecentDownloads returns.
CompletedDownloads(d) == {g \in Guids : d[g].present /\ d[g].Completed}

\* Mutant of GetRecentDownloads: the returned records stay in the map.
GetRecentDownloads_NoDelete(d) == d

\* GetRecentDownloads: the map after the completed records were deleted.
GetRecentDownloads(d) == [g \in Guids |-> IF g \in CompletedDownloads(d) THEN NoDownload ELSE d[g]]

\* toolOutWithDownloads, or navigateRun after ERR_ABORTED: the output
\* lists what GetRecentDownloads returned.
toolOutWithDownloads ==
    /\ Len(dlOuts) < MaxReports
    /\ dlOuts' = Append(dlOuts, CompletedDownloads(downloads))
    /\ downloads' = GetRecentDownloads(downloads)
    /\ UNCHANGED dlState

NextDownloads ==
    \/ \E g \in Guids : handleDownloadWillBegin(g) /\ UNCHANGED <<coreVars, urlVars, brVars, conVars, ordVars>>
    \/ \E g \in Guids, state \in {"inProgress", "completed", "canceled"} : handleDownloadProgress(g, state) /\ UNCHANGED <<coreVars, urlVars, brVars, conVars, ordVars>>
    \/ toolOutWithDownloads /\ UNCHANGED <<coreVars, urlVars, brVars, conVars, ordVars>>

(***************************************************************************)
(* The conversations table: what appends, archive, unarchive and slug      *)
(* rename do to updated_at.  The queries themselves are not part of the    *)
(* sources modelled here: they follow the specification (section 4.B)      *)
(* and the tests of the queries that are.                                  *)
(***************************************************************************)

\* The clock's last second.
MaxClock == 2

\* Messages appended in a run.
MaxAppends == 2

OrdConvs == {"A", "B", "C"}

OrdSlugs == {"s1"}

\* SET updated_at = CURRENT_TIMESTAMP, as the queries that stamp a
\* conversation do.
StampNow(ts, conv) == [ts EXCEPT ![conv] = ordNow]

\* recordMessage: q.UpdateConversationTimestamp(ctx, conversationID); a
\* failure is only logged.
recordTimestamp(ts, conv, ok) == IF ok THEN StampNow(ts, conv) ELSE ts

\* db.ArchiveConversation / db.UnarchiveConversation: the flag, and
\* nothing else, is set.
SetArchived(flags, conv, value) == [flags EXCEPT ![conv] = value]

InitOrder ==
    /\ updatedAt = [c \in OrdConvs |-> 0]
    /\ archived = [c \in OrdConvs |-> FALSE]
    /\ ordSlug = [c \in OrdConvs |-> ""]
    /\ ordNow = 0
    /\ appends = 0
    /\ ordPending = [c \in OrdConvs |-> 0]
    /\ lastOp = "none"

\* A second passes.
OrdTick ==
    /\ ordNow < MaxClock
    /\ ordNow' = ordNow + 1
    /\ lastOp' = "tick"
    /\ UNCHANGED <<updatedAt, archived, ordSlug, appends, ordPending>>

\* recordMessage, first transaction: s.db.CreateMessage stores the message
\* and, in the same transaction, stamps the conversation (section 4.B).
OrdCreateMessage(conv) ==
    /\ appends < MaxAppends
    /\ appends' = appends + 1
    /\ updatedAt' = StampNow(updatedAt, conv)
    /\ ordPending' = [ordPending EXCEPT ![conv] = @ + 1]
    /\ lastOp' = "create"
    /\ UNCHANGED <<archived, ordSlug, ordNow>>

\* recordMessage, second transaction: UpdateConversationTimestamp, run
\* after CreateMessage has returned; other requests and the clock run in
\* between.
OrdRecordMessage(conv, ok) ==
    /\ ordPending[conv] > 0
    /\ ordPending' = [ordPending EXCEPT ![conv] = @ - 1]
    /\ updatedAt' = recordTimestamp(updatedAt, conv, ok)
    /\ lastOp' = "timestamp"
    /\ UNCHANGED <<archived, ordSlug, ordNow, appends>>

\* handleArchiveConversation
OrdArchive(conv) ==
    /\ archived' = SetArchived(archived, conv, TRUE)
    /\ lastOp' = "archive"
    /\ UNCHANGED <<updatedAt, ordSlug, ordNow, appends, ordPending>>

\* handleUnarchiveConversation
OrdUnarchive(conv) ==
    /\ archived' = SetArchived(archived, conv, FALSE)
    /\ lastOp' = "unarchive"
    /\ UNCHANGED <<updatedAt, ordSlug, ordNow, appends, ordPending>>

\* handleRenameConversation: s.db.UpdateConversationSlug sets the slug
\* unless another conversation has it, and stamps the conversation: its
\* test expects an updated_at that is not before the one the row had, "SQLite
\* CURRENT_TIMESTAMP has second precision, so we check >= instead of >".
OrdRename(conv, slug) ==
    /\ \A other \in OrdConvs \ {conv} : ordSlug[other] # slug
    /\ ordSlug' = [ordSlug EXCEPT ![conv] = slug]
    /\ updatedAt' = StampNow(updatedAt, conv)
    /\ lastOp' = "rename"
    /\ UNCHANGED <<archived, ordNow, appends, ordPending>>

\* ListConversations / ListArchivedConversations: the conversations with
\* the given flag, ORDER BY updated_at DESC; every order of equal
\* timestamps is a possible answer.
ListByUpdatedAt(flag) ==
    LET rows == {c \in OrdConvs : archived[c] = flag}
    IN  {l \in [1 .. Cardinality(rows) -> rows] :
            /\ \A i, j \in DOMAIN l : i # j => l[i] # l[j]
            /\ \A i, j \in DOMAIN l : i < j => updatedAt[l[i]] >= updatedAt[l[j]]}

NextOrder ==
    \/ OrdTick /\ UNCHANGED <<coreVars, urlVars, brVars, conVars, dlVars>>
    \/ \E conv \in OrdConvs : OrdCreateMessage(conv) /\ UNCHANGED <<coreVars, urlVars, brVars, conVars, dlVars>>
    \/ \E conv \in OrdConvs, ok \in BOOLEAN : OrdRecordMessage(conv, ok) /\ UNCHANGED <<coreVars, urlVars, brVars, conVars, dlVars>>
    \/ \E conv \in OrdConvs : OrdArchive(conv) /\ UNCHANGED <<coreVars, urlVars, brVars, conVars, dlVars>>
    \/ \E conv \in OrdConvs : OrdUnarchive(conv) /\ UNCHANGED <<coreVars, urlVars, brVars, conVars, dlVars>>
    \/ \E conv \in OrdConvs, slug \in OrdSlugs : OrdRename(conv, slug) /\ UNCHANGED <<coreVars, urlVars, brVars, conVars, dlVars>>


(***************************************************************************)
(* handleDeleteConversation, next to getOrCreateConversationManager.       *)
(***************************************************************************)

NoDelete == [conv |-> "none", active |-> FALSE, status |-> "none"]

InitDelete ==
    /\ convRows = ConvIds
    /\ delOut = NoDelete

\* s.db.DeleteConversation(ctx, conversationID): the conversation's rows go.
DeleteConversation(db, conv) == db \ {conv}

\* handleDeleteConversation: the rows are deleted, whatever
\* s.activeConversations holds; a database error is answered with 500.
handleDeleteConversation(conv, dbOk) ==
    /\ convRows' = IF dbOk THEN DeleteConversation(convRows, conv) ELSE convRows
    /\ delOut' = [conv |-> conv, active |-> activeConversations[conv] # NoMgr,
                  status |-> IF dbOk THEN "deleted" ELSE "error"]

NextDelete ==
    \/ \E h \in Callers, c \in ConvIds : DoCall(h, c) /\ UNCHANGED <<busVars, concVars, notifyVars, appVars>>
    \/ \E h \in Callers : FnLookup(h) /\ UNCHANGED <<busVars, concVars, notifyVars, appVars>>
    \/ \E h \in Callers, ok \in BOOLEAN : FnHydrate(h, ok) /\ UNCHANGED <<busVars, concVars, notifyVars, appVars>>
    \/ \E h \in Callers : DoReturn(h) /\ UNCHANGED <<busVars, concVars, notifyVars, appVars>>
    \/ \E c \in ConvIds, dbOk \in BOOLEAN : handleDeleteConversation(c, dbOk) /\ UNCHANGED <<busVars, concVars, notifyVars, mgrVars, awVars, sanVars, textVars, slugVars, turnVars, sideVars, rtVars, snapVars, genVars, stVars, evVars>>


(***************************************************************************)
(* agent_working twice: notifySubscribersNewMessage computes it from the   *)
(* appended message alone, handleStreamConversation from the whole list.   *)
(* A database message is its Type and its LlmData: nil, text that is not   *)
(* a JSON message ("bad"), or a message whose EndOfTurn is true or false.  *)
(***************************************************************************)

\* Length of the message logs.
MaxSnapLen == 3

DbMsg(type, llm) == [type |-> type, llm |-> llm]

DbMsgs ==
    {DbMsg("agent", llm) : llm \in {"nil", "bad", "true", "false"}}
        \cup {DbMsg(ty, llm) : ty \in MsgTypes \ {"agent"}, llm \in {"nil", "true"}}

\* extractEndOfTurn(raw): <<message.EndOfTurn, true>>, or <<false, false>>
\* when raw does not parse.
extractEndOfTurn(raw) ==
    IF raw = "bad" THEN <<FALSE, FALSE>> ELSE <<raw = "true", TRUE>>

\* Mutant of isEndOfTurn: a gitinfo message is not taken as the end of a turn.
isEndOfTurn_NoGitInfo(msg) ==
    IF msg.type = "error" THEN TRUE
    ELSE IF msg.type # "agent" THEN FALSE
    ELSE IF msg.llm = "nil" THEN FALSE
    ELSE IF ~extractEndOfTurn(msg.llm)[2] THEN FALSE
    ELSE extractEndOfTurn(msg.llm)[1]

isEndOfTurn(msg) ==
    IF msg.type = "error" THEN TRUE
    ELSE IF msg.type = "gitinfo" THEN TRUE
    ELSE IF msg.type # "agent" THEN FALSE
    ELSE IF msg.llm = "nil" THEN FALSE
    ELSE IF ~extractEndOfTurn(msg.llm)[2] THEN FALSE
    ELSE extractEndOfTurn(msg.llm)[1]

\* toAPIMessages, one message: EndOfTurn is set for an agent message whose
\* LlmData parses, and is nil otherwise.
toAPIMessage(msg) ==
    IF msg.llm # "nil" /\ msg.type = "agent" /\ extractEndOfTurn(msg.llm)[2]
    THEN ApiMsg(msg.type, IF extractEndOfTurn(msg.llm)[1] THEN "true" ELSE "false")
    ELSE ApiMsg(msg.type, "nil")

toAPIMessages(log) == [i \in 1 .. Len(log) |-> toAPIMessage(log[i])]

\* No initial snapshot was computed yet.
NoFlag == [len |-> -1, flag |-> FALSE]

\* The notification goroutine of a message has not run yet.
SnapPending == [st |-> "pending", flag |-> FALSE]

\* It returned without publishing (no manager, or GetConversation failed).
SnapNone == [st |-> "none", flag |-> FALSE]

\* It published a snapshot with this AgentWorking.
SnapSent(flag) == [st |-> "sent", flag |-> flag]

InitSnap ==
    /\ dbLog = <<>>
    /\ snapFlag = <<>>
    /\ initFlag = NoFlag

\* recordMessage: CreateMessage stores the message and the notification
\* goroutine is started.
SnapRecord(msg) ==
    /\ Len(dbLog) < MaxSnapLen
    /\ dbLog' = Append(dbLog, msg)
    /\ snapFlag' = Append(snapFlag, SnapPending)
    /\ UNCHANGED initFlag

\* notifySubscribersNewMessage for message i, in its own goroutine: it
\* returns early when the manager is missing or GetConversation fails, and
\* publishes AgentWorking: !isEndOfTurn(newMsg) otherwise.
SnapNotify(i, ok) ==
    /\ i \in DOMAIN snapFlag
    /\ snapFlag[i] = SnapPending
    /\ snapFlag' = [snapFlag EXCEPT ![i] = IF ok THEN SnapSent(~isEndOfTurn(dbLog[i])) ELSE SnapNone]
    /\ UNCHANGED <<dbLog, initFlag>>

\* handleStreamConversation, the initial snapshot of the log as it is now:
\* AgentWorking: agentWorking(toAPIMessages(messages)).
SnapStream ==
    /\ initFlag' = [len |-> Len(dbLog), flag |-> agentWorking(toAPIMessages(dbLog))]
    /\ UNCHANGED <<dbLog, snapFlag>>

NextSnap ==
    \/ \E msg \in DbMsgs : SnapRecord(msg) /\ UNCHANGED <<busVars, concVars, notifyVars, mgrVars, awVars, sanVars, textVars, slugVars, turnVars, sideVars, rtVars, delVars, genVars, stVars, evVars>>
    \/ \E i \in 1 .. MaxSnapLen, ok \in BOOLEAN : SnapNotify(i, ok) /\ UNCHANGED <<busVars, concVars, notifyVars, mgrVars, awVars, sanVars, textVars, slugVars, turnVars, sideVars, rtVars, delVars, genVars, stVars, evVars>>
    \/ SnapStream /\ UNCHANGED <<busVars, concVars, notifyVars, mgrVars, awVars, sanVars, textVars, slugVars, turnVars, sideVars, rtVars, delVars, genVars, stVars, evVars>>


(***************************************************************************)
(* package slug: callSlugLLM inside generateSlugText and GenerateSlug.     *)
(* A model answers with an error or with a text; the empty text stands     *)
(* for a response without a non-empty text block.                          *)
(***************************************************************************)

GenTexts == {<<>>, <<"!", "!">>, <<" ", "_", " ">>, <<" ", "Z", " ", "a", "!">>}

GenResps == {[kind |-> "error", text |-> <<>>]} \cup [kind : {"text"}, text : GenTexts]

GenTags == {<<>>, <<"slug">>, <<"slug-backup">>}

GenSetups == [tags : GenTags, svc : BOOLEAN, resp : GenResps]

GenConvs ==
    {[kind |-> "empty", m |-> 0, svc |-> FALSE, resp |-> [kind |-> "error", text |-> <<>>]]}
        \cup [kind : {"predictable", "unlisted"}, m : {0}, svc : BOOLEAN, resp : GenResps]
        \cup [kind : {"listed"}, m : ModelIds, svc : {FALSE}, resp : {[kind |-> "error", text |-> <<>>]}]

GenInputs == [models : [ModelIds -> GenSetups], conv : GenConvs]

\* strings.TrimSpace
RECURSIVE TrimSpace(_)
TrimSpace(s) ==
    IF s = <<>> THEN s
    ELSE IF s[1] = " " THEN TrimSpace(Tail(s))
    ELSE IF s[Len(s)] = " " THEN TrimSpace(SubSeq(s, 1, Len(s) - 1))
    ELSE s

SlugOk(slug) == [ok |-> TRUE, slug |-> slug, err |-> ""]

SlugErr(err) == [ok |-> FALSE, slug |-> <<>>, err |-> err]

\* Mutant of callSlugLLM: the sanitized text is returned without the test
\* for the empty string.
callSlugLLM_NoEmptyCheck(resp) ==
    IF resp.kind = "error" THEN SlugErr("failed to generate slug")
    ELSE IF resp.text = <<>> THEN SlugErr("no text content in LLM response")
    ELSE SlugOk(Sanitize(TrimSpace(resp.text)))

\* callSlugLLM, from the answer of llmService.Do on.
callSlugLLM(resp) ==
    IF resp.kind = "error" THEN SlugErr("failed to generate slug")
    ELSE IF resp.text = <<>> THEN SlugErr("no text content in LLM response")
    ELSE LET slug == Sanitize(TrimSpace(resp.text))
         IN  IF slug = <<>>
             THEN SlugErr("generated slug is empty after sanitization")
             ELSE SlugOk(slug)

\* The answer of the model a call of generateSlugText went to.
RespOfCall(g, call) ==
    IF call.via \in {"slug", "slug-backup"} THEN g.models[call.m].resp
    ELSE IF g.conv.kind = "listed" THEN g.models[g.conv.m].resp
    ELSE g.conv.resp

\* The input as generateSlugText sees it: of each model, whether its
\* callSlugLLM succeeds.
GenTextIn(g) ==
    [models |-> [m \in ModelIds |-> [tags |-> g.models[m].tags, svc |-> g.models[m].svc,
                                     gen |-> callSlugLLM(g.models[m].resp).ok]],
     conv |-> [kind |-> g.conv.kind, m |-> g.conv.m, svc |-> g.conv.svc,
               gen |-> callSlugLLM(g.conv.resp).ok]]

\* generateSlugText with the slug or the error it returns: those of the
\* last call when a callSlugLLM result is returned.
GenSlugText(g) ==
    LET r    == generateSlugText(GenTextIn(g))
        last == callSlugLLM(RespOfCall(g, r.trace[Len(r.trace)]))
    IN  IF r.ok THEN [ok |-> TRUE, slug |-> last.slug, err |-> "", trace |-> r.trace]
        ELSE IF r.err = "generation failed"
             THEN [ok |-> FALSE, slug |-> <<>>, err |-> last.err, trace |-> r.trace]
             ELSE [ok |-> FALSE, slug |-> <<>>, err |-> r.err, trace |-> r.trace]

InitGen ==
    /\ genIn = [models |-> [m \in ModelIds |-> [tags |-> <<>>, svc |-> FALSE, resp |-> [kind |-> "error", text |-> <<>>]]],
                conv |-> [kind |-> "empty", m |-> 0, svc |-> FALSE, resp |-> [kind |-> "error", text |-> <<>>]]]
    /\ genOut = [ok |-> FALSE, slug |-> <<>>, err |-> "", trace |-> <<>>]
    /\ genDb = <<>>
    /\ genStage = 0

\* GenerateSlug: generateSlugText, and on success
\* UpdateConversationSlug with the base slug.
GenCall(g) ==
    /\ genStage = 0
    /\ genIn' = g
    /\ genOut' = GenSlugText(g)
    /\ genDb' = IF GenSlugText(g).ok THEN <<GenSlugText(g).slug>> ELSE <<>>
    /\ genStage' = 1

NextGen ==
    \E g \in GenInputs : GenCall(g) /\ UNCHANGED <<busVars, concVars, notifyVars, mgrVars, awVars, sanVars, textVars, slugVars, turnVars, sideVars, rtVars, delVars, snapVars, stVars, evVars>>


(***************************************************************************)
(* handleStreamConversation and notifySubscribers next to recordMessage    *)
(* and notifySubscribersNewMessage, for one conversation whose manager is  *)
(* in the map.  The calls on the bus are the atomic ones: Subscribe,       *)
(* Publish and Broadcast hold sp.mu.                                       *)
(***************************************************************************)

\* notifySubscribers calls in a run.
MaxMeta == 1

\* Messages appended while clients join.
MaxStreamMsgs == 2

\* The snapshot of a metadata-only update: no messages.
MetaVal(j) == [k |-> "meta", n |-> j]

InitStream ==
    /\ stPc = [s \in Subs |-> "idle"]
    /\ stLast = [s \in Subs |-> -1]
    /\ stGot = [s \in Subs |-> {}]
    /\ present = [n \in SeqIds |-> {}]
    /\ metaPc = "none"
    /\ metaIdx = 0
    /\ metaRuns = 0

\* last := int64(-1); if len(messages) > 0 { last = messages[len-1].SequenceID }
LastOf(n) == IF n > 0 THEN n - 1 ELSE -1

\* handleStreamConversation up to the initial snapshot: ListMessages, and
\* the messages are sent to the client.
StreamRead(s) ==
    /\ stPc[s] = "idle"
    /\ stPc' = [stPc EXCEPT ![s] = "read"]
    /\ stLast' = [stLast EXCEPT ![s] = LastOf(msgs)]
    /\ stGot' = [stGot EXCEPT ![s] = 0 .. msgs - 1]
    /\ UNCHANGED <<present, metaPc, metaIdx, metaRuns>>

\* next := manager.subpub.Subscribe(ctx, last)
StreamSubscribe(s) ==
    /\ stPc[s] = "read"
    /\ Subscribe(s, stLast[s])
    /\ stPc' = [stPc EXCEPT ![s] = "sub"]
    /\ UNCHANGED <<stLast, stGot, present, metaPc, metaIdx, metaRuns>>

\* streamData, cont := next(); the snapshot is written to the client.
StreamNext(s) ==
    /\ stPc[s] = "sub"
    /\ NextFn(s)
    /\ stGot' = [stGot EXCEPT ![s] = IF NextResult(s)[1].k = "msg" THEN @ \cup {NextResult(s)[1].n} ELSE @]
    /\ UNCHANGED <<stPc, stLast, present, metaPc, metaIdx, metaRuns>>

\* recordMessage, as in SpecNotify.
StreamRecordMessage ==
    /\ msgs < MaxStreamMsgs
    /\ RecordMessage

\* notifySubscribersNewMessage's Publish, with the subscribers it met.
StreamNotifyPublish(n) ==
    /\ NotifyPublish(n)
    /\ present' = [present EXCEPT ![n] = {s \in Range(subscribers) : ~done[s]}]
    /\ UNCHANGED <<stPc, stLast, stGot, metaPc, metaIdx, metaRuns>>

\* var latestSequenceID int64; if len(messages) > 0 { latestSequenceID =
\* messages[len(messages)-1].SequenceID }
LatestSequenceID(n) == IF n > 0 THEN n - 1 ELSE 0

\* notifySubscribers up to the Publish: the manager is found, the
\* conversation and the messages are read.
MetaRead ==
    /\ metaPc = "none"
    /\ metaRuns < MaxMeta
    /\ metaRuns' = metaRuns + 1
    /\ metaIdx' = LatestSequenceID(msgs)
    /\ metaPc' = "publish"
    /\ UNCHANGED <<stPc, stLast, stGot, present>>

\* manager.subpub.Publish(latestSequenceID, streamData)
MetaPublish ==
    /\ metaPc = "publish"
    /\ Publish(metaIdx, MetaVal(metaIdx))
    /\ metaPc' = "broadcast"
    /\ UNCHANGED <<stPc, stLast, stGot, present, metaIdx, metaRuns>>

\* s.publishConversationListUpdate(...)
MetaBroadcast ==
    /\ metaPc = "broadcast"
    /\ Broadcast(ListVal)
    /\ metaPc' = "none"
    /\ UNCHANGED <<stPc, stLast, stGot, present, metaIdx, metaRuns>>

NextStream ==
    \/ StreamRecordMessage /\ UNCHANGED <<busVars, concVars, mgrVars, appVars>>
    \/ \E n \in SeqIds, ok \in BOOLEAN : NotifyLookup(n, ok) /\ UNCHANGED <<busVars, concVars, mgrVars, appVars>>
    \/ \E n \in SeqIds : StreamNotifyPublish(n) /\ UNCHANGED <<concVars, mgrVars, awVars, sanVars, textVars, slugVars, turnVars, sideVars, rtVars, delVars, snapVars, genVars, evVars>>
    \/ \E n \in SeqIds : NotifyBroadcast(n) /\ UNCHANGED <<concVars, mgrVars, appVars>>
    \/ \E s \in Subs : StreamRead(s) /\ UNCHANGED <<busVars, concVars, notifyVars, mgrVars, awVars, sanVars, textVars, slugVars, turnVars, sideVars, rtVars, delVars, snapVars, genVars, evVars>>
    \/ \E s \in Subs : StreamSubscribe(s) /\ UNCHANGED <<concVars, notifyVars, mgrVars, awVars, sanVars, textVars, slugVars, turnVars, sideVars, rtVars, delVars, snapVars, genVars, evVars>>
    \/ \E s \in Subs : StreamNext(s) /\ UNCHANGED <<concVars, notifyVars, mgrVars, awVars, sanVars, textVars, slugVars, turnVars, sideVars, rtVars, delVars, snapVars, genVars, evVars>>
    \/ MetaRead /\ UNCHANGED <<busVars, concVars, notifyVars, mgrVars, awVars, sanVars, textVars, slugVars, turnVars, sideVars, rtVars, delVars, snapVars, genVars, evVars>>
    \/ MetaPublish /\ UNCHANGED <<concVars, notifyVars, mgrVars, awVars, sanVars, textVars, slugVars, turnVars, sideVars, rtVars, delVars, snapVars, genVars, evVars>>
    \/ MetaBroadcast /\ UNCHANGED <<concVars, notifyVars, mgrVars, awVars, sanVars, textVars, slugVars, turnVars, sideVars, rtVars, delVars, snapVars, genVars, evVars>>


(***************************************************************************)
(* Server.Cleanup next to getOrCreateConversationManager, recordMessage,   *)
(* the notifications and a stream request.  Time is counted in units of    *)
(* fifteen minutes.  getOrCreateConversationManager is one step: its fn    *)
(* holds s.mu from the lookup to the store, as Cleanup does for the sweep. *)
(***************************************************************************)

\* The clock's last value.
MaxEvTime == 3

\* Managers a run may create.
MaxEvMgrs == 2

\* Messages appended to "c1".
MaxEvMsgs == 2

EvMgrs == 1 .. MaxEvMgrs

EvSeqs == 0 .. MaxEvMsgs - 1

EvClient == "s1"

\* subpub.New()
EmptyBus ==
    [subscribers |-> <<>>, remaining |-> <<>>, idx |-> [s \in Subs |-> 0],
     ch |-> [s \in Subs |-> <<>>], closed |-> [s \in Subs |-> FALSE],
     done |-> [s \in Subs |-> FALSE], panic |-> FALSE, blocked |-> FALSE]

NoEvSub == [pc |-> "idle", last |-> -1, mgr |-> NoMgr, joined |-> 0, got |-> {}]

InitEvict ==
    /\ evNow = 0
    /\ evMap = [c \in ConvIds |-> NoMgr]
    /\ evLast = [m \in EvMgrs |-> 0]
    /\ evMade = 0
    /\ evStopped = {}
    /\ evMsgs = 0
    /\ evNpc = [n \in EvSeqs |-> "none"]
    /\ evNmgr = [n \in EvSeqs |-> NoMgr]
    /\ evPublished = <<>>
    /\ evBus = [m \in EvMgrs |-> EmptyBus]
    /\ evSub = NoEvSub
    /\ evOp = FALSE

\* Fifteen minutes pass.
EvTick ==
    /\ evNow < MaxEvTime
    /\ evNow' = evNow + 1
    /\ evOp' = FALSE
    /\ UNCHANGED <<evMap, evLast, evMade, evStopped, evMsgs, evNpc, evNmgr, evPublished, evBus, evSub>>

\* manager.Touch()
Touch(last, m) == [last EXCEPT ![m] = evNow]

\* The map and the activity times after getOrCreateConversationManager:
\* an existing manager is touched; otherwise a manager is made (its
\* activity time starts now) and stored if Hydrate succeeds.
GetOrCreate(conv, ok) ==
    IF evMap[conv] # NoMgr
    THEN [map |-> evMap, last |-> Touch(evLast, evMap[conv]), made |-> evMade, mgr |-> evMap[conv]]
    ELSE [map |-> IF ok THEN [evMap EXCEPT ![conv] = evMade + 1] ELSE evMap,
          last |-> Touch(evLast, evMade + 1),
          made |-> evMade + 1,
          mgr |-> IF ok THEN evMade + 1 ELSE NoMgr]

\* A request other than a stream request (chat, cancel, ...) gets the manager.
EvRequest(conv, ok) ==
    /\ evMap[conv] # NoMgr \/ evMade < MaxEvMgrs
    /\ LET r == GetOrCreate(conv, ok)
       IN  /\ evMap' = r.map
           /\ evLast' = r.last
           /\ evMade' = r.made
    /\ evOp' = FALSE
    /\ UNCHANGED <<evNow, evStopped, evMsgs, evNpc, evNmgr, evPublished, evBus, evSub>>

\* recordMessage for "c1", up to the s.mu section: CreateMessage stores
\* the message (and the timestamp is updated).  recordMessage is a method
\* of the server and takes no manager: it runs whether or not the map has
\* one.
EvCreateMessage ==
    /\ evMsgs < MaxEvMsgs
    /\ evMsgs' = evMsgs + 1
    /\ evNpc' = [evNpc EXCEPT ![evMsgs] = "created"]
    /\ evOp' = FALSE
    /\ UNCHANGED <<evNow, evMap, evLast, evMade, evStopped, evNmgr, evPublished, evBus, evSub>>

\* recordMessage, the rest: under s.mu the manager in the map, if there is
\* one, is touched; then the notification goroutine is started.
EvRecordMessage(n) ==
    /\ evNpc[n] = "created"
    /\ evLast' = IF evMap["c1"] # NoMgr THEN Touch(evLast, evMap["c1"]) ELSE evLast
    /\ evNpc' = [evNpc EXCEPT ![n] = "lookup"]
    /\ evOp' = FALSE
    /\ UNCHANGED <<evNow, evMap, evMade, evStopped, evMsgs, evNmgr, evPublished, evBus, evSub>>

\* notifySubscribersNewMessage: manager, exists := s.activeConversations[id]
EvNotifyLookup(n) ==
    /\ evNpc[n] = "lookup"
    /\ evNmgr' = [evNmgr EXCEPT ![n] = evMap["c1"]]
    /\ evNpc' = [evNpc EXCEPT ![n] = IF evMap["c1"] # NoMgr THEN "publish" ELSE "done"]
    /\ evOp' = FALSE
    /\ UNCHANGED <<evNow, evMap, evLast, evMade, evStopped, evMsgs, evPublished, evBus, evSub>>

\* manager.subpub.Publish(newMsg.SequenceID, streamData), on the bus of
\* the manager that was found.
EvNotifyPublish(n) ==
    /\ evNpc[n] = "publish"
    /\ evBus' = [evBus EXCEPT ![evNmgr[n]] = RunLoop(@, 1, TRUE, n, MsgVal(n))]
    /\ evPublished' = Append(evPublished, n)
    /\ evNpc' = [evNpc EXCEPT ![n] = "broadcast"]
    /\ evOp' = FALSE
    /\ UNCHANGED <<evNow, evMap, evLast, evMade, evStopped, evMsgs, evNmgr, evSub>>

\* publishConversationListUpdate: Broadcast on the bus of every manager in the map.
EvNotifyBroadcast(n) ==
    /\ evNpc[n] = "broadcast"
    /\ evBus' = [m \in EvMgrs |->
                    IF \E c \in ConvIds : evMap[c] = m
                    THEN RunLoop(evBus[m], 1, FALSE, 0, ListVal)
                    ELSE evBus[m]]
    /\ evNpc' = [evNpc EXCEPT ![n] = "done"]
    /\ evOp' = FALSE
    /\ UNCHANGED <<evNow, evMap, evLast, evMade, evStopped, evMsgs, evNmgr, evPublished, evSub>>

\* handleStreamConversation for "c1", up to the initial snapshot.
EvStreamRead ==
    /\ evSub.pc = "idle"
    /\ evSub' = [evSub EXCEPT !.pc = "read", !.last = LastOf(evMsgs), !.got = 0 .. evMsgs - 1]
    /\ evOp' = FALSE
    /\ UNCHANGED <<evNow, evMap, evLast, evMade, evStopped, evMsgs, evNpc, evNmgr, evPublished, evBus>>

\* sp.Subscribe(ctx, idx), on a bus given as a value.
SubscribeOn(b, s, i) == [b EXCEPT !.subscribers = Append(@, s), !.idx[s] = i]

\* handleStreamConversation: getOrCreateConversationManager; s.mu is
\* released when it returns.
EvStreamJoin(ok) ==
    /\ evSub.pc = "read"
    /\ evMap["c1"] # NoMgr \/ evMade < MaxEvMgrs
    /\ LET r == GetOrCreate("c1", ok)
       IN  /\ evMap' = r.map
           /\ evLast' = r.last
           /\ evMade' = r.made
           /\ evSub' = IF r.mgr = NoMgr
                       THEN [evSub EXCEPT !.pc = "failed"]
                       ELSE [evSub EXCEPT !.pc = "got", !.mgr = r.mgr]
    /\ evOp' = FALSE
    /\ UNCHANGED <<evNow, evStopped, evMsgs, evNpc, evNmgr, evPublished, evBus>>

\* handleStreamConversation: manager.subpub.Subscribe(ctx, last), under the
\* bus's own lock, on the bus of the manager it was given.
EvStreamSubscribe ==
    /\ evSub.pc = "got"
    /\ evBus' = [evBus EXCEPT ![evSub.mgr] = SubscribeOn(@, EvClient, evSub.last)]
    /\ evSub' = [evSub EXCEPT !.pc = "sub", !.joined = evMsgs]
    /\ evOp' = FALSE
    /\ UNCHANGED <<evNow, evMap, evLast, evMade, evStopped, evMsgs, evNpc, evNmgr, evPublished>>

\* The client's next(): the head of its mailbox is written to the client.
EvStreamNext ==
    /\ evSub.pc = "sub"
    /\ evBus[evSub.mgr].ch[EvClient] # <<>>
    /\ LET head == Head(evBus[evSub.mgr].ch[EvClient])
       IN  evSub' = [evSub EXCEPT !.got = IF head.k = "msg" THEN @ \cup {head.n} ELSE @]
    /\ evBus' = [evBus EXCEPT ![evSub.mgr].ch[EvClient] = Tail(@)]
    /\ evOp' = FALSE
    /\ UNCHANGED <<evNow, evMap, evLast, evMade, evStopped, evMsgs, evNpc, evNmgr, evPublished>>

\* Mutant of Expired: a manager is removed when it has been inactive for
\* thirty minutes or more.
Expired_AtLimit(m) == evNow - evLast[m] >= EvictAfter

\* now.Sub(lastActivity) > 30*time.Minute
Expired(m) == evNow - evLast[m] > EvictAfter

\* Cleanup: every manager in the map that is expired is stopped and deleted.
Cleanup ==
    /\ evMap' = [c \in ConvIds |-> IF evMap[c] # NoMgr /\ Expired(evMap[c]) THEN NoMgr ELSE evMap[c]]
    /\ evStopped' = evStopped \cup {evMap[c] : c \in {d \in ConvIds : evMap[d] # NoMgr /\ Expired(evMap[d])}}
    /\ evOp' = TRUE
    /\ UNCHANGED <<evNow, evLast, evMade, evMsgs, evNpc, evNmgr, evPublished, evBus, evSub>>

NextEvict ==
    \/ EvTick /\ UNCHANGED <<busVars, concVars, notifyVars, mgrVars, awVars, sanVars, textVars, slugVars, turnVars, sideVars, rtVars, delVars, snapVars, genVars, stVars>>
    \/ \E c \in ConvIds, ok \in BOOLEAN : EvRequest(c, ok) /\ UNCHANGED <<busVars, concVars, notifyVars, mgrVars, awVars, sanVars, textVars, slugVars, turnVars, sideVars, rtVars, delVars, snapVars, genVars, stVars>>
    \/ EvCreateMessage /\ UNCHANGED <<busVars, concVars, notifyVars, mgrVars, awVars, sanVars, textVars, slugVars, turnVars, sideVars, rtVars, delVars, snapVars, genVars, stVars>>
    \/ \E n \in EvSeqs : EvRecordMessage(n) /\ UNCHANGED <<busVars, concVars, notifyVars, mgrVars, awVars, sanVars, textVars, slugVars, turnVars, sideVars, rtVars, delVars, snapVars, genVars, stVars>>
    \/ \E n \in EvSeqs : EvNotifyLookup(n) /\ UNCHANGED <<busVars, concVars, notifyVars, mgrVars, awVars, sanVars, textVars, slugVars, turnVars, sideVars, rtVars, delVars, snapVars, genVars, stVars>>
    \/ \E n \in EvSeqs : EvNotifyPublish(n) /\ UNCHANGED <<busVars, concVars, notifyVars, mgrVars, awVars, sanVars, textVars, slugVars, turnVars, sideVars, rtVars, delVars, snapVars, genVars, stVars>>
    \/ \E n \in EvSeqs : EvNotifyBroadcast(n) /\ UNCHANGED <<busVars, concVars, notifyVars, mgrVars, awVars, sanVars, textVars, slugVars, turnVars, sideVars, rtVars, delVars, snapVars, genVars, stVars>>
    \/ EvStreamRead /\ UNCHANGED <<busVars, concVars, notifyVars, mgrVars, awVars, sanVars, textVars, slugVars, turnVars, sideVars, rtVars, delVars, snapVars, genVars, stVars>>
    \/ \E ok \in BOOLEAN : EvStreamJoin(ok) /\ UNCHANGED <<busVars, concVars, notifyVars, mgrVars, awVars, sanVars, textVars, slugVars, turnVars, sideVars, rtVars, delVars, snapVars, genVars, stVars>>
    \/ EvStreamSubscribe /\ UNCHANGED <<busVars, concVars, notifyVars, mgrVars, awVars, sanVars, textVars, slugVars, turnVars, sideVars, rtVars, delVars, snapVars, genVars, stVars>>
    \/ EvStreamNext /\ UNCHANGED <<busVars, concVars, notifyVars, mgrVars, awVars, sanVars, textVars, slugVars, turnVars, sideVars, rtVars, delVars, snapVars, genVars, stVars>>
    \/ Cleanup /\ UNCHANGED <<busVars, concVars, notifyVars, mgrVars, awVars, sanVars, textVars, slugVars, turnVars, sideVars, rtVars, delVars, snapVars, genVars, stVars>>

InitExt == InitSide /\ InitPort /\ InitBrowser /\ InitConsole /\ InitDownloads /\ InitOrder /\ InitDelete /\ InitSnap /\ InitGen /\ InitStream /\ InitEvict

Init == InitBus /\ InitConc /\ InitNotify /\ InitMgr /\ InitAW /\ InitSan /\ InitText /\ InitSlug /\ InitTurn /\ InitExt

Next ==
    \/ \E s \in Subs, i \in SinceIdxs : Subscribe(s, i) /\ UNCHANGED <<concVars, srvVars>>
    \/ \E s \in Subs : Cancel(s) /\ UNCHANGED <<concVars, srvVars>>
    \/ \E j \in Idxs : \E v \in PubVals(j) : Publish(j, v) /\ UNCHANGED <<concVars, srvVars>>
    \/ \E v \in BcastVals : Broadcast(v) /\ UNCHANGED <<concVars, srvVars>>
    \/ \E s \in Subs : NextFn(s) /\ UNCHANGED <<concVars, srvVars>>

Spec == Init /\ [][Next]_vars


(***************************************************************************)
(* The bus with its real interleavings (specification SpecConc).  Publish  *)
(* and Broadcast hold sp.mu for the whole loop, so Subscribe waits for     *)
(* them; a context is cancelled and NextFn runs without the mutex, at any  *)
(* point of the loop: between the ctx.Done check of an iteration and its   *)
(* send, and between the two selects of NextFn.                            *)
(***************************************************************************)

\* Publish and Broadcast calls a run may start.
MaxCalls == 2

InLoop == pub.op # "idle" /\ pub.i <= Len(subscribers)

CurSub == subscribers[pub.i]

\* The bus as the running call sees it.
ConcBus == [Bus EXCEPT !.remaining = pub.remaining]

\* sp.mu.Lock(); remaining := sp.subscribers[:0]
CBegin(isPublish, j, v) ==
    /\ pub.op = "idle"
    /\ calls < MaxCalls
    /\ pub' = [op |-> IF isPublish THEN "publish" ELSE "broadcast", j |-> j, v |-> v,
               i |-> 1, stage |-> "ctx", remaining |-> <<>>]
    /\ calls' = calls + 1
    /\ UNCHANGED <<busVars, cpc, term>>

\* select { case <-sub.ctx.Done(): close(sub.ch); continue; default: }
CCtxCheck ==
    /\ InLoop
    /\ pub.stage = "ctx"
    /\ IF done[CurSub]
       THEN LET r == CloseCh(ConcBus, CurSub)
            IN  /\ closed' = r.closed
                /\ panic' = r.panic
                /\ pub' = [pub EXCEPT !.i = pub.i + 1]
       ELSE /\ pub' = [pub EXCEPT !.stage = "send"]
            /\ UNCHANGED <<closed, panic>>
    /\ UNCHANGED <<subscribers, idx, ch, done, born, seen, cpc, term, calls>>

\* The rest of the iteration: the index test and the send.
CDeliver ==
    /\ InLoop
    /\ pub.stage = "send"
    /\ LET r == Deliver(ConcBus, CurSub, pub.op = "publish", pub.j, pub.v)
       IN  /\ ~r.blocked
           /\ idx' = r.idx
           /\ ch' = r.ch
           /\ closed' = r.closed
           /\ done' = r.done
           /\ panic' = r.panic
           /\ pub' = [pub EXCEPT !.i = pub.i + 1, !.stage = "ctx", !.remaining = r.remaining]
    /\ UNCHANGED <<subscribers, born, seen, cpc, term, calls>>

\* sp.subscribers = remaining; sp.mu.Unlock()
CEnd ==
    /\ pub.op # "idle"
    /\ pub.i > Len(subscribers)
    /\ subscribers' = pub.remaining
    /\ pub' = PubIdle
    /\ UNCHANGED <<idx, ch, closed, done, born, panic, seen, cpc, term, calls>>

\* Subscribe takes sp.mu to append.
CSubscribe(s, i) ==
    /\ pub.op = "idle"
    /\ Subscribe(s, i)
    /\ UNCHANGED concVars

CCancel(s) ==
    /\ Cancel(s)
    /\ UNCHANGED concVars

\* The consumer takes the head of the mailbox.
Take(s) ==
    /\ ch' = [ch EXCEPT ![s] = Tail(ch[s])]
    /\ seen' = [seen EXCEPT ![s] = IF Head(ch[s]).k = "msg" THEN Head(ch[s]).n ELSE seen[s]]

\* The outer select takes "case msg, ok := <-ch": a buffered value, or
\* !ok on a closed and empty channel.
CNextRecv(s) ==
    /\ born[s]
    /\ ~term[s]
    /\ cpc[s] = "select"
    /\ ch[s] # <<>> \/ closed[s]
    /\ IF ch[s] # <<>>
       THEN Take(s) /\ UNCHANGED term
       ELSE term' = [term EXCEPT ![s] = TRUE] /\ UNCHANGED <<ch, seen>>
    /\ UNCHANGED <<subscribers, idx, closed, done, born, panic, pub, cpc, calls>>

\* The outer select takes "case <-subCtx.Done()".
CNextDone(s) ==
    /\ born[s]
    /\ ~term[s]
    /\ cpc[s] = "select"
    /\ done[s]
    /\ cpc' = [cpc EXCEPT ![s] = "drain"]
    /\ UNCHANGED <<busVars, pub, term, calls>>

\* The inner select: one buffered value if there is one, else false.
CNextDrain(s) ==
    /\ cpc[s] = "drain"
    /\ cpc' = [cpc EXCEPT ![s] = "select"]
    /\ IF ch[s] # <<>>
       THEN Take(s) /\ UNCHANGED term
       ELSE term' = [term EXCEPT ![s] = TRUE] /\ UNCHANGED <<ch, seen>>
    /\ UNCHANGED <<subscribers, idx, closed, done, born, panic, pub, calls>>

NextConc ==
    \/ \E s \in Subs, i \in SinceIdxs : CSubscribe(s, i) /\ UNCHANGED srvVars
    \/ \E s \in Subs : CCancel(s) /\ UNCHANGED srvVars
    \/ \E j \in Idxs : \E v \in PubVals(j) : CBegin(TRUE, j, v) /\ UNCHANGED srvVars
    \/ \E v \in BcastVals : CBegin(FALSE, 0, v) /\ UNCHANGED srvVars
    \/ CCtxCheck /\ UNCHANGED srvVars
    \/ CDeliver /\ UNCHANGED srvVars
    \/ CEnd /\ UNCHANGED srvVars
    \/ \E s \in Subs : CNextRecv(s) /\ UNCHANGED srvVars
    \/ \E s \in Subs : CNextDone(s) /\ UNCHANGED srvVars
    \/ \E s \in Subs : CNextDrain(s) /\ UNCHANGED srvVars

SpecConc == Init /\ [][NextConc]_vars

SpecNotify == Init /\ [][NextNotify]_vars

SpecMgr == Init /\ [][NextMgr]_vars

SpecAW == Init /\ [][NextAW]_vars

SpecSan == Init /\ [][NextSan]_vars

SpecText == Init /\ [][NextText]_vars

SpecSlug == Init /\ [][NextSlug]_vars

SpecSlugConc == Init /\ [][NextSlugConc]_vars

SpecTurn == Init /\ [][NextTurn]_vars /\ FairTurn

SpecPort == Init /\ [][NextPort]_vars

SpecBrowser == Init /\ [][NextBrowser]_vars /\ FairBrowser

SpecConsole == Init /\ [][NextConsole]_vars

SpecDownloads == Init /\ [][NextDownloads]_vars

SpecOrder == Init /\ [][NextOrder]_vars

SpecEvict == Init /\ [][NextEvict]_vars

SpecStream == Init /\ [][NextStream]_vars


(***************************************************************************)
(* The interleaved bus in runs long enough to fill a mailbox               *)
(* (specification SpecFill): one subscriber, its consumer, cancellation,   *)
(* and up to MaxFill Publish and Broadcast calls.                          *)
(***************************************************************************)

\* Publish and Broadcast calls a long run may start.
MaxFill == 11

\* sp.mu.Lock(); remaining := sp.subscribers[:0]
CBeginFill(isPublish, j, v) ==
    /\ pub.op = "idle"
    /\ calls < MaxFill
    /\ pub' = [op |-> IF isPublish THEN "publish" ELSE "broadcast", j |-> j, v |-> v,
               i |-> 1, stage |-> "ctx", remaining |-> <<>>]
    /\ calls' = calls + 1
    /\ UNCHANGED <<busVars, cpc, term>>

NextFill ==
    \/ \E i \in SinceIdxs : CSubscribe("s1", i) /\ UNCHANGED srvVars
    \/ CCancel("s1") /\ UNCHANGED srvVars
    \/ \E j \in Idxs : \E v \in PubVals(j) : CBeginFill(TRUE, j, v) /\ UNCHANGED srvVars
    \/ \E v \in BcastVals : CBeginFill(FALSE, 0, v) /\ UNCHANGED srvVars
    \/ CCtxCheck /\ UNCHANGED srvVars
    \/ CDeliver /\ UNCHANGED srvVars
    \/ CEnd /\ UNCHANGED srvVars
    \/ CNextRecv("s1") /\ UNCHANGED srvVars
    \/ CNextDone("s1") /\ UNCHANGED srvVars
    \/ CNextDrain("s1") /\ UNCHANGED srvVars

SpecFill == Init /\ [][NextFill]_vars

SpecGen == Init /\ [][NextGen]_vars

SpecSnap == Init /\ [][NextSnap]_vars

SpecDelete == Init /\ [][NextDelete]_vars

(***************************************************************************)
(* Properties of the bus operations (specification Spec).  A property of   *)
(* a call is stated of the call's result in every reachable state: r is    *)
(* the bus as the call leaves it, the unprimed variables are the bus as    *)
(* the call finds it.                                                      *)
(***************************************************************************)
Registered(s) == s \in Range(subscribers)

\* Every call that can be made in the current state, with the bus it leaves.
PublishCalls ==
    UNION {{[j |-> j, v |-> v, r |-> PublishResult(j, v)] : v \in PubVals(j)} : j \in Idxs}

BroadcastCalls == {[v |-> v, r |-> BroadcastResult(v)] : v \in BcastVals}

\* In r the subscriber is disconnected: mailbox closed, token fired,
\* removed, and nothing was added to the mailbox.
Disconnected(r, s) ==
    /\ r.closed[s]
    /\ r.done[s]
    /\ s \notin Range(r.subscribers)
    /\ r.ch[s] = ch[s]

Untouched(r, s) ==
    /\ r.ch[s] = ch[s]
    /\ r.idx[s] = idx[s]
    /\ r.closed[s] = closed[s]
    /\ r.done[s] = done[s]
    /\ s \in Range(r.subscribers)

\* C1: Publish(j, v) enqueues v exactly once, at the tail, for every
\* registered subscriber that is not cancelled, has room and is behind j
\* (idx < j); that subscriber's idx becomes j and it stays registered.
C1_PublishDelivers ==
    \A c \in PublishCalls :
        \A s \in Range(subscribers) :
            (~done[s] /\ Len(ch[s]) < ChanCap /\ idx[s] < c.j) =>
                /\ c.r.ch[s] = Append(ch[s], c.v)
                /\ c.r.idx[s] = c.j
                /\ s \in Range(c.r.subscribers)

\* A subscriber that joined at -1 holds the snapshots 0 and 1, each once, and is at index 1.
C1_Witness ==
    \E s \in Subs :
        /\ Registered(s)
        /\ idx[s] = 1
        /\ ch[s] = <<MsgVal(0), MsgVal(1)>>

\* C2 as stated: Publish(j, v) leaves every subscriber with idx >= j
\* untouched and registered.
C2_Original ==
    \A c \in PublishCalls :
        \A s \in Range(subscribers) :
            idx[s] >= c.j =>
                /\ c.r.ch[s] = ch[s]
                /\ c.r.idx[s] = idx[s]
                /\ s \in Range(c.r.subscribers)

\* C2 amended: Publish(j, v) leaves every subscriber with idx >= j whose
\* token is not cancelled untouched: nothing enqueued, idx unchanged, still
\* registered; so a second Publish at the same j does nothing to a
\* subscriber already at j.
C2_NotBehindUntouched ==
    \A c \in PublishCalls :
        \A s \in Range(subscribers) :
            (idx[s] >= c.j /\ ~done[s]) => Untouched(c.r, s)

\* s is at index 1 with an empty mailbox while t, at index 0, holds snapshot 0:
\* t joined after Publish(1), so Publish(0) ran with s registered at 1 >= 0.
C2_Witness ==
    \E s, t \in Subs :
        /\ Registered(s) /\ Registered(t)
        /\ ~done[s]
        /\ idx[s] = 1 /\ ch[s] = <<>>
        /\ idx[t] = 0 /\ ch[t] = <<MsgVal(0)>>

\* C3: a mailbox never holds more than 10 values; a Publish or Broadcast
\* that has to deliver to a subscriber whose mailbox is full disconnects it
\* (closed, token fired, removed, nothing enqueued) and still delivers to
\* every other subscriber that has room.
C3_BehindIsDropped ==
    /\ \A s \in Subs : Len(ch[s]) <= ChanCap
    /\ \A c \in PublishCalls :
           \A s \in Range(subscribers) :
               (~done[s] /\ idx[s] < c.j) =>
                   IF Len(ch[s]) = ChanCap
                   THEN Disconnected(c.r, s)
                   ELSE c.r.ch[s] = Append(ch[s], c.v) /\ s \in Range(c.r.subscribers)
    /\ \A c \in BroadcastCalls :
           \A s \in Range(subscribers) :
               ~done[s] =>
                   IF Len(ch[s]) = ChanCap
                   THEN Disconnected(c.r, s)
                   ELSE c.r.ch[s] = Append(ch[s], c.v) /\ s \in Range(c.r.subscribers)

\* s was dropped with ten unread values while t, which kept reading, is
\* still registered and holds fewer.
C3_Witness ==
    \E s, t \in Subs :
        /\ s # t
        /\ closed[s] /\ done[s] /\ ~Registered(s)
        /\ Len(ch[s]) = ChanCap
        /\ Registered(t) /\ ~done[t] /\ ~closed[t]
        /\ seen[t] = 1
        /\ ch[t] # <<>>

\* C4: no call has panicked, and in every reachable state every Publish
\* and every Broadcast call runs its loop to the end without waiting for a
\* subscriber and without a panic, whatever the subscribers have done.
C4_PublisherNeverStalls ==
    /\ ~panic
    /\ \A r \in {c.r : c \in PublishCalls} \cup {c.r : c \in BroadcastCalls} :
           ~r.blocked /\ ~r.panic

\* One subscriber never read and was dropped with a full mailbox, the other
\* was cancelled and reaped: the publisher got past both.
C4_Witness ==
    \E s, t \in Subs :
        /\ closed[s] /\ Len(ch[s]) = ChanCap /\ seen[s] = -1
        /\ closed[t] /\ done[t] /\ Len(ch[t]) < ChanCap
        /\ subscribers = <<>>

\* The snapshots (kind msg) in a mailbox are in increasing sequence-id
\* order, none is beyond the subscriber's index, and all are later than the
\* last snapshot NextFn returned to the subscriber.
MailboxOrdered(s) ==
    /\ \A p, q \in 1 .. Len(ch[s]) :
           (p < q /\ ch[s][p].k = "msg" /\ ch[s][q].k = "msg") => ch[s][p].n < ch[s][q].n
    /\ \A p \in 1 .. Len(ch[s]) :
           ch[s][p].k = "msg" => (seen[s] < ch[s][p].n /\ ch[s][p].n <= idx[s])

\* C6: NextFn returns the oldest buffered value and removes exactly it,
\* Publish and Broadcast add at the tail only, and the snapshots a
\* subscriber is given come in increasing sequence-id order: every snapshot
\* still in its mailbox is later than the last one NextFn returned to it.
C6_Fifo ==
    /\ [](\A s \in Subs : MailboxOrdered(s))
    /\ [](\A c \in PublishCalls : \A s \in Subs :
             c.r.ch[s] = ch[s] \/ c.r.ch[s] = ch[s] \o <<c.v>>)
    /\ [](\A c \in BroadcastCalls : \A s \in Subs :
             c.r.ch[s] = ch[s] \/ c.r.ch[s] = ch[s] \o <<c.v>>)
    /\ [][\A s \in Subs :
             (NextFn(s) /\ ch[s] # <<>>) =>
                 /\ NextResult(s) = <<ch[s][1], TRUE>>
                 /\ ch'[s] = SubSeq(ch[s], 2, Len(ch[s]))
                 /\ (ch[s][1].k = "msg" => seen[s] < ch[s][1].n /\ seen'[s] = ch[s][1].n)]_vars

\* A consumer has been given snapshot 0; snapshot 1 is now the oldest
\* buffered value, ahead of a list update.
C6_Witness ==
    \E s \in Subs :
        /\ seen[s] = 0
        /\ ch[s] = <<MsgVal(1), ListVal>>

\* C8: Broadcast(v) enqueues v, at the tail, for every registered
\* subscriber that is not cancelled and has room, whatever its idx, and
\* changes no subscriber's idx.
C8_BroadcastIgnoresIndex ==
    \A c \in BroadcastCalls :
        /\ c.r.idx = idx
        /\ \A s \in Range(subscribers) :
               (~done[s] /\ Len(ch[s]) < ChanCap) =>
                   c.r.ch[s] = Append(ch[s], c.v) /\ s \in Range(c.r.subscribers)

\* Two subscribers at different indices both hold the same list update.
C8_Witness ==
    \E s, t \in Subs :
        /\ Registered(s) /\ Registered(t)
        /\ idx[s] = -1 /\ idx[t] = 1
        /\ ch[s] = <<ListVal>>
        /\ ch[t] = <<MsgVal(1), ListVal>>

\* C9: a Publish or Broadcast removes every subscriber whose token was
\* cancelled when the call began, closes its mailbox and enqueues nothing
\* for it.
C9_CancelledAreReaped ==
    \A r \in {c.r : c \in PublishCalls} \cup {c.r : c \in BroadcastCalls} :
        \A s \in Range(subscribers) :
            done[s] =>
                /\ s \notin Range(r.subscribers)
                /\ r.closed[s]
                /\ r.ch[s] = ch[s]

\* A cancelled subscriber has been removed and its mailbox closed with its
\* unread value left as it was, while the other subscriber is still registered.
C9_Witness ==
    \E s, t \in Subs :
        /\ born[s] /\ done[s] /\ closed[s] /\ ~Registered(s)
        /\ ch[s] = <<ListVal>>
        /\ Registered(t) /\ ch[t] = <<ListVal, MsgVal(0)>>

\* C5: once NextFn has reported termination to a consumer, no value is
\* left in (or later put into) its mailbox: every accepted value was
\* returned before the termination.
C5_NoSilentLoss ==
    \A s \in Subs : term[s] => ch[s] = <<>>

(***************************************************************************)
(* Properties of the coordinator (specifications SpecNotify and SpecMgr).  *)
(***************************************************************************)

\* C7: the Publish calls on the manager's bus are made in sequence-id
\* order: a message appended earlier is published earlier.
C7_PublishInAppendOrder ==
    \A p, q \in 1 .. Len(published) :
        p < q => published[p] < published[q]

Successes(c) == hydrated[c] - failed[c]

Hydrating(c) == {h \in Callers : hpc[h] = "hydrate" /\ arg[h] = c}

\* C10: for each conversation id every manager that is created is hydrated
\* once, at most one Hydrate succeeds and a manager is created again only
\* after a Hydrate failure, so callers that overlap never create two; the
\* map holds the manager whose Hydrate succeeded and nothing otherwise;
\* every caller that returns without error has the manager in the map, and
\* a caller that returns an error has no manager and a Hydrate has failed.
C10_OneManagerPerConversation ==
    /\ \A c \in ConvIds :
           /\ created[c] = hydrated[c] + Cardinality(Hydrating(c))
           /\ Cardinality(Hydrating(c)) <= 1
           /\ Successes(c) \in {0, 1}
           /\ created[c] <= failed[c] + 1
           /\ (activeConversations[c] # NoMgr) = (Successes(c) = 1)
    /\ \A c, d \in ConvIds :
           (c # d /\ activeConversations[c] # NoMgr) =>
               activeConversations[c] # activeConversations[d]
    /\ \A h \in Callers :
           hpc[h] = "done" =>
               IF result[h].err
               THEN result[h].mgr = NoMgr /\ failed[arg[h]] > 0
               ELSE result[h].mgr # NoMgr /\ result[h].mgr = activeConversations[arg[h]]

\* Three callers asked for the same conversation while the first call was
\* in flight and all three returned the one manager that was created.
C10_Witness ==
    /\ \A h \in Callers : hpc[h] = "done" /\ arg[h] = "c1" /\ ~result[h].err
    /\ \A h \in Callers : result[h].mgr = activeConversations["c1"]
    /\ created["c1"] = 1
    /\ hydrated["c1"] = 1

(***************************************************************************)
(* Properties of the end-of-turn observer (specification SpecAW).          *)
(***************************************************************************)

\* The list without its trailing gitinfo entries.
RECURSIVE StripGitInfo(_)
StripGitInfo(ms) ==
    IF ms # <<>> /\ ms[Len(ms)].type = "gitinfo"
    THEN StripGitInfo(SubSeq(ms, 1, Len(ms) - 1))
    ELSE ms

\* The tail, trailing gitinfo ignored, is an agent entry with
\* end_of_turn=true or an error entry.
TurnEndedTail(ms) ==
    LET core == StripGitInfo(ms)
    IN  /\ core # <<>>
        /\ \/ core[Len(core)].type = "error"
           \/ core[Len(core)].type = "agent" /\ core[Len(core)].eot = "true"

\* C14 as stated: agentWorking is false if and only if the tail, trailing
\* gitinfo ignored, is agent end_of_turn=true or error.
C14_Original ==
    awOut.called => (awOut.val = ~TurnEndedTail(awMsgs))

\* C14 amended: agentWorking is false if and only if the list has no entry
\* other than gitinfo (it is empty or all gitinfo) or its tail, trailing
\* gitinfo ignored, is agent end_of_turn=true or error; for any other tail
\* (user, tool, agent with end_of_turn false or absent) it is true.
C14_EndOfTurnRule ==
    awOut.called =>
        (awOut.val = ~(StripGitInfo(awMsgs) = <<>> \/ TurnEndedTail(awMsgs)))

\* agentWorking returned true for a list whose agent entry ended the turn
\* but is followed by a tool entry and a gitinfo entry.
C14_Witness ==
    /\ awOut.called
    /\ awOut.val
    /\ awMsgs = <<ApiMsg("agent", "true"), ApiMsg("tool", "nil"), GitInfo>>

TrailingGitInfo(k) == [i \in 1 .. k |-> GitInfo]

\* C15: appending any number of trailing gitinfo entries to a list does
\* not change what agentWorking returns for it: the result the call gave
\* for the list is the result for the list with k more gitinfo entries.
C15_GitInfoIsIgnored ==
    awOut.called =>
        \A k \in 1 .. MaxAwLen : agentWorking(awMsgs \o TrailingGitInfo(k)) = awOut.val

\* A completed turn followed by two gitinfo entries was reported not working.
C15_Witness ==
    /\ awOut.called
    /\ ~awOut.val
    /\ awMsgs = <<ApiMsg("user", "nil"), ApiMsg("agent", "true"), GitInfo, GitInfo>>

(***************************************************************************)
(* Properties of the slug allocator (package slug).                        *)
(***************************************************************************)

\* C19: Sanitize is idempotent: applying it to its own result gives that
\* result again, also when the first application cut the string at 60
\* characters and then trimmed a hyphen the cut left at the end.
C19_SanitizeIdempotent ==
    sanStage = 2 => sanTwice = sanOnce

\* An input of 59 letters, a space and more letters: the cut at 60 left a
\* trailing hyphen, which was trimmed, and the second application changed nothing.
C19_Witness ==
    /\ sanStage = 2
    /\ sanIn = Pad(SlugMaxLen - 1) \o <<" ", "Z", "!">>
    /\ sanOnce = Pad(SlugMaxLen - 1)
    /\ sanTwice = sanOnce

\* The listed models that carry the tag and whose service is obtainable.
Usable(in, tag) ==
    {m \in ModelIds : in.models[m].tags # NoInfo /\ tag \in Range(in.models[m].tags) /\ in.models[m].svc}

Calls(via) == {i \in 1 .. Len(txOut.trace) : txOut.trace[i].via = via}

\* C20: generateSlugText tries the models in a fixed order.  With the
\* conversation on an obtainable "predictable" model that model alone is
\* called.  Otherwise slug-tagged models are called in list order, then
\* slug-backup-tagged ones in list order, then the conversation's model;
\* every call but the last has failed; a slug-backup call is made only
\* when every usable slug model was called and failed, a conversation-model
\* call only when every usable tagged model failed; only models that carry
\* the tag and have a service are called; and the error "no suitable model
\* available for slug generation" is the result exactly when no call
\* succeeded and the conversation's model was not called.
C20_ModelOrder ==
    txStage = 1 =>
        LET tr == txOut.trace
            n == Len(tr)
            Failed(i) == IF tr[i].via \in {"slug", "slug-backup"}
                         THEN ~txIn.models[tr[i].m].gen
                         ELSE ~ConvService(txIn).gen
        IN  /\ (txIn.conv.kind = "predictable" /\ txIn.conv.svc) =>
                   tr = <<TextCall("predictable", 0)>>
            /\ Calls("predictable") # {} => (txIn.conv.kind = "predictable" /\ txIn.conv.svc)
            /\ \A i, j \in 1 .. n :
                   i < j =>
                       /\ Failed(i)
                       /\ tr[i].via # "conversation"
                       /\ (tr[i].via = "slug-backup" => tr[j].via # "slug")
                       /\ (tr[i].via = tr[j].via => tr[i].m < tr[j].m)
            /\ \A i \in Calls("slug") \cup Calls("slug-backup") : tr[i].m \in Usable(txIn, tr[i].via)
            /\ Calls("slug-backup") # {} =>
                   \A m \in Usable(txIn, "slug") :
                       ~txIn.models[m].gen /\ (\E i \in Calls("slug") : tr[i].m = m)
            /\ Calls("conversation") # {} =>
                   /\ txIn.conv.kind \in {"listed", "unlisted"}
                   /\ ConvService(txIn).svc
                   /\ \A m \in Usable(txIn, "slug") \cup Usable(txIn, "slug-backup") : ~txIn.models[m].gen
                   /\ \A m \in Usable(txIn, "slug-backup") : \E i \in Calls("slug-backup") : tr[i].m = m
            /\ txOut.ok = (n > 0 /\ ~Failed(n))
            /\ txOut.ok => txOut.by = tr[n].m
            /\ (txOut.err = "no suitable model available for slug generation") =
                   (~txOut.ok /\ Calls("conversation") = {} /\ Calls("predictable") = {})
            /\ (Usable(txIn, "slug") \cup Usable(txIn, "slug-backup") = {}
                    /\ (txIn.conv.kind = "empty" \/ ~ConvService(txIn).svc)) =>
                   txOut.err = "no suitable model available for slug generation"

\* The first listed model is a slug-backup model, the second a slug model
\* whose generation fails: the slug model was tried first and the backup
\* model produced the text.
C20_Witness ==
    /\ txStage = 1
    /\ txIn.models[1].tags = <<"slug-backup">>
    /\ txIn.models[2].tags = <<"slug">>
    /\ txOut.trace = <<TextCall("slug", 2), TextCall("slug-backup", 1)>>
    /\ txOut.ok
    /\ txOut.by = 1

SmallestFreeSuffix(b, taken) ==
    CHOOSE k \in 1 .. MaxAttempts :
        /\ Append(b, k) \notin taken
        /\ \A i \in 1 .. k - 1 : Append(b, i) \in taken

\* The first n slugs the loop tries for the candidate b: b, b-1, ..., b-(n-1).
TriedUpTo(b, n) == IF n = 0 THEN {} ELSE {b} \cup {Append(b, k) : k \in 1 .. n - 1}

FirstHundred(b) == TriedUpTo(b, MaxAttempts)

\* The call of k returns in this step, without error.
GsSucceeds(k) == gs[k].pc = "loop" /\ gs'[k].pc = "done" /\ gs'[k].err = ""

\* C16: a GenerateSlug call that succeeds stores the slug it returns in
\* the conversation's row, changes no other row, and returns a slug no
\* other row holds; when no other writer changed the table during the call
\* (conversations allocating one after another) it is the bare candidate
\* if no other row holds it, and otherwise the candidate with the smallest
\* suffix k >= 1 that no other row holds.  So the same candidate gives c,
\* c-1, c-2 to conversations that allocate one after another.
C16_SmallestFreeSuffix ==
    [][\A k \in SlugConvs :
          GsSucceeds(k) =>
              LET taken == TakenFor(SlugDb, k)
                  base == gs[k].base
              IN  /\ slugOf'[k] = gs'[k].ret
                  /\ \A j \in SlugConvs \ {k} : slugOf'[j] = slugOf[j]
                  /\ gs'[k].ret \notin taken
                  /\ gs[k].alone =>
                         gs'[k].ret = IF base \notin taken THEN base
                                      ELSE Append(base, SmallestFreeSuffix(base, taken))]_vars

\* Three conversations were given the candidate "c" one after another and
\* hold c, c-1 and c-2, each the value its call returned.
C16_Witness ==
    /\ held = {}
    /\ slugOf = [k \in SlugConvs |-> IF k = "k1" THEN <<"c">> ELSE IF k = "k2" THEN <<"c", 1>> ELSE <<"c", 2>>]
    /\ \A k \in SlugConvs :
           gs[k].pc = "done" /\ gs[k].base = <<"c">> /\ gs[k].ret = slugOf[k] /\ gs[k].alone

\* C17 as stated: GenerateSlug gives up only after the suffixes
\* candidate-1 through candidate-100 have all been tried.
C17_Original ==
    \A k \in SlugConvs :
        gs[k].err = "exhausted" =>
            \A i \in 1 .. MaxAttempts : Append(gs[k].base, i) \in gs[k].tried

\* C17 amended: GenerateSlug makes at most 100 attempts: the bare
\* candidate and then candidate-1, candidate-2, ... in order, up to
\* candidate-99.  Every pass of the loop that does not return moves to the
\* next attempt, and a call in the loop has made fewer than 100, so the
\* loop ends.  A call that gives up has tried exactly those 100 slugs and
\* leaves the table as it was; when no other writer changed the table
\* during the call, it gives up exactly when other rows hold the bare
\* candidate and every one of candidate-1 .. candidate-99.  candidate-100
\* is never tried.
C17_HundredAttempts ==
    /\ [](\A k \in SlugConvs :
            LET g == gs[k]
            IN  /\ g.attempt <= MaxAttempts
                /\ g.tried \subseteq FirstHundred(g.base)
                /\ g.pc = "loop" =>
                       /\ g.attempt < MaxAttempts
                       /\ g.tried = TriedUpTo(g.base, g.attempt)
                       /\ g.slug = IF g.attempt = 0 THEN g.base ELSE Append(g.base, g.attempt)
                /\ g.err = "exhausted" =>
                       /\ g.pc = "done"
                       /\ g.tried = FirstHundred(g.base)
                       /\ g.ret = NoSlug)
    /\ [][\A k \in SlugConvs :
            gs[k].pc = "loop" =>
                /\ gs'[k].pc = "loop" =>
                       \/ gs'[k].attempt = gs[k].attempt /\ gs'[k].tried = gs[k].tried
                       \/ gs'[k].attempt = gs[k].attempt + 1 /\ gs'[k].tried # gs[k].tried
                /\ gs'[k].err = "exhausted" =>
                       /\ slugOf' = slugOf
                       /\ gs[k].alone => FirstHundred(gs[k].base) \subseteq TakenFor(SlugDb, k)
                /\ (GsSucceeds(k) /\ gs[k].alone) =>
                       ~(FirstHundred(gs[k].base) \subseteq TakenFor(SlugDb, k))]_vars

\* A call gave up after 100 attempts although c-100 was free: the rows
\* held c and c-1 .. c-99.
C17_Witness ==
    \E k \in SlugConvs :
        /\ gs[k].err = "exhausted"
        /\ Cardinality(gs[k].tried) = MaxAttempts
        /\ <<"c", MaxAttempts>> \notin held
        /\ <<"c", MaxAttempts - 1>> \in held
        /\ slugOf[k] = NoSlug

\* C18: no two rows of the conversations table hold the same non-NULL
\* slug, whatever the interleaving of GenerateSlug calls for different
\* conversations with the same candidate and of renames; rows with a NULL
\* slug are not restricted.
C18_SlugsUnique ==
    /\ \A k, l \in SlugConvs : (k # l /\ slugOf[k] # NoSlug) => slugOf[k] # slugOf[l]
    /\ \A k \in SlugConvs : slugOf[k] # NoSlug => slugOf[k] \notin held
    /\ NoSlug \notin held

\* Two calls ran at the same time with the candidate "c": one holds c, the
\* other, after a unique violation, c-1; the third conversation and any
\* number of others keep a NULL slug.
C18_Witness ==
    /\ held = {}
    /\ gs["k1"].pc = "done" /\ gs["k1"].base = <<"c">> /\ slugOf["k1"] = <<"c", 1>>
    /\ gs["k2"].pc = "loop" /\ gs["k2"].base = <<"c">> /\ slugOf["k2"] = <<"c">>
    /\ <<"c">> \in gs["k1"].tried
    /\ slugOf["k3"] = NoSlug


(***************************************************************************)
(* Properties of SpecTurn.                                                 *)
(***************************************************************************)

\* The turn workers that are running.
Workers == {w \in Callers : workers[w].pc \notin {"none", "start"}}

\* C11: a conversation has at most one turn in progress: whatever chat
\* requests arrive and however they interleave, no two turn workers are
\* alive on the conversation's log at the same time.
C11_OneTurnInProgress == Cardinality(Workers) <= 1

\* Every tool use of the log is followed by a tool-result entry or by an
\* error entry.
Answered(log) ==
    \A i \in 1 .. Len(log) :
        (log[i].type = "agent" /\ log[i].tools) =>
            \E j \in i + 1 .. Len(log) : log[j].type \in {"tool", "error"}

\* The step that ends CancelConversation's wait appends one error entry at
\* the tail of the log: an observer then reports the agent as not working
\* and no tool use of the log is left without a tool-result or error entry.
CancelRecordsError ==
    [][(cancelPc = "wait" /\ cancelPc' # "wait") =>
            /\ Len(tlog') = Len(tlog) + 1
            /\ SubSeq(tlog', 1, Len(tlog)) = tlog
            /\ tlog'[Len(tlog')].type = "error"
            /\ ~agentWorking(LogApi(tlog'))
            /\ Answered(tlog')]_vars

\* A cancel that finds no manager changes neither the log, the turns, the
\* workers, the manager map nor the activity times.
CancelWithoutManager ==
    [][(cancelPc = "idle" /\ cancelPc' = "done" /\ activeConversations[TurnConv] = NoMgr) =>
            UNCHANGED <<tlog, turn, workers, activeConversations, created, lastActivity>>]_vars

\* A worker whose token was fired appends nothing but an error entry.
CancelledAppendsErrorOnly ==
    [][\A w \in Callers :
            (workers[w].cancelled /\ workers'[w] # workers[w] /\ tlog' # tlog) =>
                tlog'[Len(tlog')].type = "error"]_vars

\* A cancel that waits ends, with its error entry recorded, and the turn
\* it cancelled stops.
CancelledStops ==
    (cancelPc = "wait") ~> (cancelPc = "done" /\ cancelTurn # NoTurn /\ workers[cancelTurn].pc = "none")

\* C12 as stated: when CancelConversation has recorded its error entry the
\* turn has stopped.
C12_Original ==
    /\ CancelRecordsError
    /\ CancelWithoutManager
    /\ [][(cancelPc = "wait" /\ cancelPc' # "wait") => workers[cancelTurn].pc = "none"]_vars

\* C12: cancelling leaves the log consistent.  CancelConversation fires the
\* token of the turn in flight, waits a bounded time and then appends an
\* error entry at the tail of the log, whether or not the worker has
\* stopped by then: an observer then reports the agent as not working and
\* every tool use of the log is followed by a tool-result or an error
\* entry.  The worker stops then or later and appends nothing after its
\* token was fired but an error entry of its own.  A cancel that finds no
\* manager changes nothing.
C12_CancelConsistent ==
    /\ CancelRecordsError
    /\ CancelWithoutManager
    /\ CancelledAppendsErrorOnly
    /\ CancelledStops

\* C12 witness: the wait for a turn that had asked for tools timed out;
\* the cancellation's error entry follows the agent entry, and the worker,
\* which stopped later, put its own error entry behind it.
C12_Witness ==
    /\ cancelPc = "done"
    /\ cancelMgr # NoMgr
    /\ Workers = {}
    /\ Len(tlog) = 4
    /\ tlog[2].type = "agent" /\ tlog[2].tools
    /\ tlog[3].type = "error"
    /\ tlog[4].type = "error"
    /\ workers[cancelTurn].cancelled

\* C13: the sequence ids of the log are exactly 0 .. n-1 in append order.
C13_SequenceIdsGapFree == \A i \in 1 .. Len(tlog) : tlog[i].seq = i - 1

\* C13 witness: a full log with entries of two turns, a tool round and an
\* error entry carries the ids 0 .. MaxLog-1.
C13_Witness ==
    /\ Len(tlog) = MaxLog
    /\ tlog[MaxLog].seq = MaxLog - 1
    /\ Cardinality({i \in 1 .. Len(tlog) : tlog[i].type = "user"}) = 2
    /\ \E i \in 1 .. Len(tlog) : tlog[i].type = "tool"
    /\ tlog[MaxLog].type = "error"


UserEntries == {i \in 1 .. Len(tlog) : tlog[i].type = "user"}

\* C21: the slug goroutine is started exactly once per conversation: by
\* the request whose user message is the first of the log, when its
\* AcceptUserMessage returns, and by no later one; and its failure changes
\* neither the request's answer, the turn nor the log.
C21_SlugOncePerConversation ==
    /\ [](Cardinality({h \in Callers : first[h]}) = IF UserEntries = {} THEN 0 ELSE 1)
    /\ [](\A h \in Callers : slugPc[h] # "none" <=> (chat[h] = "accepted" /\ first[h]))
    /\ [][\A h \in Callers : first'[h] /\ ~first[h] =>
            tlog = <<>> /\ Len(tlog') = 1 /\ chat'[h] = "recording"]_vars
    /\ [][\A h \in Callers : slugPc[h] = "none" /\ slugPc'[h] # "none" =>
            first[h] /\ tlog[1].type = "user" /\ chat[h] = "recording" /\ chat'[h] = "accepted"]_vars
    /\ [][\A h \in Callers : slugPc[h] = "running" /\ slugPc'[h] = "failed" =>
            UNCHANGED <<chat, turn, workers, tlog>>]_vars

\* C21 witness: the first request's slug generation failed, its turn
\* ended normally, and a second request was accepted without a slug run.
C21_Witness ==
    /\ \E h1, h2 \in Callers :
          /\ slugPc[h1] = "failed" /\ chat[h1] = "accepted"
          /\ slugPc[h2] = "none" /\ chat[h2] = "accepted"
    /\ Cardinality(UserEntries) = 2
    /\ \E i \in 1 .. Len(tlog) : tlog[i].type = "agent" /\ tlog[i].eot = "true"


(***************************************************************************)
(* Properties of SpecPort.                                                 *)
(***************************************************************************)

\* The port a URL names after its host, "" when it names none: only a URL
\* with a //authority has one.
ExplicitPort(u) == IF u.slashes /\ Len(u.port) = 2 THEN u.port[2] ELSE ""

\* The string is one url.Parse refuses: a control character, or a port
\* that is not a number.
Unparsable(u) == u.ctl \/ (u.slashes /\ ExplicitPort(u) = "x")

PortRule(u) ==
    /\ ~Unparsable(u)
    /\ \/ ExplicitPort(u) = "80"
       \/ ExplicitPort(u) = "" /\ LowerScheme(u.scheme) = "http"

\* C27 as stated: the rule above, and false for every string without a
\* scheme.
C27_Original == urlOut # UrlUnset => (urlOut[1] <=> (PortRule(urlIn[1]) /\ urlIn[1].scheme # ""))

\* C27: isPort80 is true exactly when the URL parses and either its
\* explicit port is 80, whatever the scheme and also without one
\* (//host:80), or it has no explicit port and its scheme is http; an
\* explicit port other than 80 makes it false even for http, and an
\* unparsable string gives false.
C27_Port80Rule == urlOut # UrlUnset => (urlOut[1] <=> PortRule(urlIn[1]))

\* C27 witness: ftp://example.com:80 is reported as port 80.
C27_Witness ==
    /\ urlOut = <<TRUE>>
    /\ urlIn[2] = <<"ftp", ":", "//", "example.com", ":", "80">>


(***************************************************************************)
(* Properties of SpecBrowser.                                              *)
(***************************************************************************)

Idle == browserCtx = 0 /\ bmux = "free"

Starting == bmux = "starting"

Ready == browserCtx # 0 /\ bmux = "free"

\* The input is one the tools refuse before they touch the browser.
InputError(in) ==
    \/ in.action \notin KnownActions
    \/ in.action = "resize" /\ (in.w <= 0 \/ in.h <= 0)
    \/ in.action = "navigate" /\ in.url = UrlPort80

\* A tool invocation that gets as far as GetBrowserContext.
Demand == toolCalls' = toolCalls + 1 /\ ~InputError(tool'.in)

\* C22: the browser starts lazily.  Before the first demand there is no
\* browser; a demand in Idle enters Starting; a start that succeeds ends
\* in Ready with its live context stored and returned; a start that fails
\* ends in Idle with nothing stored, no process left and the error
\* returned, so that the next demand starts again.
C22_LazyStart ==
    /\ [](gbc.n = 0 => started = 0 /\ alive = {} /\ Idle)
    /\ [][Demand /\ Idle => Starting']_vars
    /\ [][Starting /\ ~Starting' /\ gbc'.phase = "ok" =>
            Ready' /\ browserCtx' = gbc'.ctx /\ gbc'.ctx \in alive' /\ tool'.out = "ok"]_vars
    /\ [][Starting /\ ~Starting' /\ gbc'.phase # "ok" =>
            /\ Idle'
            /\ started' \notin alive'
            /\ idleTimer'.st # "armed"
            /\ gbc'.phase = "err"
            /\ tool'.out = "starterr"]_vars

\* C22 witness: the first demand's start failed; the runtime is Idle
\* again, without a process, and the tool returned the start error.
C22_Witness ==
    /\ gbc.n = 1
    /\ gbc.phase = "err"
    /\ started = 1
    /\ alive = {}
    /\ Idle
    /\ tool.out = "starterr"

\* C23: a Ready browser always has its idle shutdown scheduled, a full
\* idle timeout after its last use, or already on its way; once the
\* timer went off the browser is shut down; a shut-down instance is no
\* longer alive; and the start that follows makes an instance that never
\* existed before and is alive.
C23_IdleShutdownAndRestart ==
    /\ [](Ready => \/ idleTimer = [st |-> "armed", at |-> lastUse + IdleTimeout]
                   \/ idleTimer.st = "fired" /\ pending > 0)
    /\ ((idleTimer.st = "fired") ~> (browserCtx = 0))
    /\ [][browserCtx # 0 /\ browserCtx' = 0 => browserCtx \notin alive']_vars
    /\ [][Starting /\ Ready' => browserCtx' > started /\ browserCtx' \in alive' /\ gbc'.ctx = browserCtx']_vars

\* C23 witness: the first browser was shut down for idleness and the
\* next demand got a second, live one.
C23_Witness ==
    /\ closedBy = "idle"
    /\ Ready
    /\ browserCtx = 2
    /\ alive = {2}
    /\ gbc.phase = "ok"
    /\ gbc.ctx = 2

\* C24: GetBrowserContext never returns a dead context: what it returns
\* is the stored context and is alive, and when the stored context was
\* dead at the demand it was closed and the one returned is another.
C24_NoDeadContext ==
    /\ [][gbc' # gbc /\ gbc'.phase = "ok" =>
            /\ gbc'.ctx = browserCtx'
            /\ gbc'.ctx \in alive'
            /\ (gbc'.oldDead => gbc'.ctx # gbc'.old /\ gbc'.old \notin alive')]_vars
    /\ [][Demand /\ browserCtx # 0 /\ browserCtx \notin alive => Starting' /\ browserCtx' = 0]_vars

\* C24 witness: the first browser crashed and the next demand returned a
\* second one.
C24_Witness ==
    /\ gbc.oldDead
    /\ gbc.old = 1
    /\ gbc.phase = "ok"
    /\ gbc.ctx = 2
    /\ closedBy = "crash"
    /\ 2 \in alive

\* C25: the browser is shut down for idleness only when a full idle
\* timeout has passed since GetBrowserContext last returned a context.
C25_IdleOnlyAfterTimeout ==
    [][pending' < pending /\ browserCtx # 0 /\ browserCtx' = 0 => now >= lastUse + IdleTimeout]_vars

\* C26: a tool invocation with an input error returns an error and
\* leaves the runtime as it was: no browser is started, and the idle
\* timer is not armed again.
C26_InputErrorsChangeNothing ==
    [][toolCalls' = toolCalls + 1 /\ InputError(tool'.in) =>
            /\ tool'.out = "error"
            /\ UNCHANGED <<browserCtx, alive, started, bmux, idleTimer, pending, lastUse, gbc>>]_vars

\* C26 witness: a resize with height 0 was refused while the browser was
\* Ready, some time after its last use; the timer still stands at that
\* use plus the idle timeout.
C26_Witness ==
    /\ tool.out = "error"
    /\ tool.in.action = "resize"
    /\ tool.in.w = 1
    /\ tool.in.h = 0
    /\ Ready
    /\ now > lastUse
    /\ idleTimer = [st |-> "armed", at |-> lastUse + IdleTimeout]


(***************************************************************************)
(* Properties of SpecConsole.                                              *)
(***************************************************************************)

\* The last n entries of q, all of q when it has no more than n.
LastN(q, n) == [i \in 1 .. (IF Len(q) > n THEN n ELSE Len(q)) |-> q[i + (IF Len(q) > n THEN Len(q) - n ELSE 0)]]

\* C28: the console-log buffer never holds more than 100 entries, and
\* they are the most recent of the entries captured since the last clear,
\* in arrival order; a read returns the most recent of them.
C28_RingNewestWins ==
    /\ Len(consoleLogs) <= maxConsoleLogs
    /\ consoleLogs = LastN(captured, maxConsoleLogs)
    /\ conOut.op = "read" => \E n \in {2, maxConsoleLogs} : conOut.logs = LastN(captured, n)

\* C28 witness: after a clear more than 100 entries were captured; the
\* buffer is full and its oldest entries are gone.
C28_Witness ==
    /\ Len(captured) > maxConsoleLogs
    /\ captured[1] > 1
    /\ Len(consoleLogs) = maxConsoleLogs
    /\ consoleLogs[1] = captured[Len(captured) - maxConsoleLogs + 1]


(***************************************************************************)
(* Properties of SpecDownloads.                                            *)
(***************************************************************************)

ReportedIn(g) == {i \in 1 .. Len(dlOuts) : g \in dlOuts[i]}

\* C29: no download is listed in the output of two invocations; a listed
\* download had its Completed or Canceled event and is gone from the map;
\* a download still in progress is in the map and was never listed.
C29_ReportedAtMostOnce ==
    \A g \in Guids :
        /\ Cardinality(ReportedIn(g)) <= 1
        /\ ReportedIn(g) # {} => dlState[g] = "done" /\ ~downloads[g].present
        /\ dlState[g] \in {"begun", "progress"} =>
              downloads[g].present /\ ~downloads[g].Completed /\ ReportedIn(g) = {}

\* C29 witness: one invocation listed g1 while g2 was in progress, a
\* later one listed g2, and a third found nothing to list.
C29_Witness ==
    /\ Len(dlOuts) = 3
    /\ dlOuts[1] = {"g1"}
    /\ dlOuts[2] = {"g2"}
    /\ dlOuts[3] = {}


(***************************************************************************)
(* Properties of SpecOrder.                                                *)
(***************************************************************************)

\* The place of conversation c in the list l.
PlaceIn(l, c) == CHOOSE i \in DOMAIN l : l[i] = c

\* C30: archive, unarchive and slug rename leave every updated_at as it
\* was; an updated_at changes only when a message is appended (in
\* CreateMessage or in the timestamp update that follows it); hence
\* archive, unarchive and rename keep the order of the lists: of two
\* conversations in the same list, the one that had the newer updated_at
\* before the operation comes first after it.
C30_ArchiveKeepsOrder ==
    /\ [][lastOp' \in {"archive", "unarchive", "rename"} => updatedAt' = updatedAt]_vars
    /\ [][\A c \in OrdConvs : updatedAt'[c] # updatedAt[c] => lastOp' \in {"create", "timestamp"}]_vars
    /\ [][lastOp' \in {"archive", "unarchive", "rename"} =>
            \A flag \in BOOLEAN : \A l \in ListByUpdatedAt(flag)' :
                \A a, b \in {c \in OrdConvs : archived'[c] = flag} :
                    updatedAt[a] > updatedAt[b] => PlaceIn(l, a) < PlaceIn(l, b)]_vars

\* C39: an idleShutdown callback that is not the one of the current timer
\* (its timer had gone off before GetBrowserContext armed the timer
\* again, or belonged to an earlier browser) does not close the current
\* browser and leaves the current timer armed.
C39_StaleCallbackHarmless ==
    [][pending' < pending /\ idleTimer.st = "armed" =>
            browserCtx' = browserCtx /\ idleTimer' = idleTimer /\ alive' = alive]_vars

(***************************************************************************)
(* Properties of SpecDelete.                                               *)
(***************************************************************************)

\* C31: a conversation is never hard-deleted while a manager is active for
\* it: no step removes the rows of a conversation that has an entry in
\* the active-manager map.
C31_NoDeleteWhileActive ==
    [][\A c \in ConvIds : (activeConversations[c] # NoMgr /\ c \in convRows) => c \in convRows']_vars

(***************************************************************************)
(* Properties of SpecSnap.                                                 *)
(***************************************************************************)

\* C33: the snapshot published for an appended error or gitinfo entry has
\* agent_working = false, whatever precedes it; the snapshot of an agent
\* entry has agent_working = not end_of_turn; the snapshot of a user or
\* tool entry has agent_working = true.
C33_AppendedEntryDecides ==
    \A i \in DOMAIN snapFlag :
        snapFlag[i].st = "sent" =>
            /\ dbLog[i].type \in {"error", "gitinfo"} => snapFlag[i].flag = FALSE
            /\ dbLog[i].type = "agent" => snapFlag[i].flag = ~(toAPIMessage(dbLog[i]).eot = "true")
            /\ dbLog[i].type \in {"user", "tool"} => snapFlag[i].flag = TRUE

\* C33 witness: a gitinfo entry follows an agent entry with
\* end_of_turn = false and its snapshot says the agent is not working.
C33_Witness ==
    /\ dbLog = <<DbMsg("user", "nil"), DbMsg("agent", "false"), DbMsg("gitinfo", "nil")>>
    /\ snapFlag[3] = SnapSent(FALSE)

\* The initial snapshot was computed from the log that ends with entry i,
\* and the snapshot of entry i was published.
BothFor(i) == i \in DOMAIN snapFlag /\ initFlag.len = i /\ snapFlag[i].st = "sent"

\* C38: the two ways of computing agent_working agree for every log: the
\* flag published for the last appended entry equals agentWorking of the
\* whole log ending with that entry, which the initial snapshot carries.
C38_FlagsAgree ==
    \A i \in 1 .. MaxSnapLen : BothFor(i) => snapFlag[i].flag = initFlag.flag

(***************************************************************************)
(* Properties of SpecGen.                                                  *)
(***************************************************************************)

EmptyError == "generated slug is empty after sanitization"

\* The call's model answered with a text that is empty after sanitization.
EmptyCandidate(call) ==
    callSlugLLM(RespOfCall(genIn, call)).err = EmptyError

\* C34 as stated: whichever model produced a candidate that is empty after
\* sanitization, nothing is persisted and slug generation reports that error.
C34_Original ==
    genStage = 1 =>
        \A i \in 1 .. Len(genOut.trace) :
            EmptyCandidate(genOut.trace[i]) =>
                genDb = <<>> /\ ~genOut.ok /\ genOut.err = EmptyError

\* C34: a candidate that is empty after sanitization is never persisted as
\* a slug.  When the predictable model or the conversation model produced
\* it, slug generation reports "generated slug is empty after
\* sanitization" and persists nothing; when a slug-tagged or
\* slug-backup-tagged model produced it, generation goes on with the
\* next model, so that error is reported exactly when the call whose
\* result is returned (the last one) had the empty candidate.
C34_EmptyCandidateRejected ==
    genStage = 1 =>
        LET tr == genOut.trace
        IN  /\ \A i \in 1 .. Len(genDb) : genDb[i] # <<>>
            /\ genOut.ok => genOut.slug # <<>> /\ genDb = <<genOut.slug>>
            /\ ~genOut.ok => genDb = <<>>
            /\ \A i \in 1 .. Len(tr) :
                   (tr[i].via \in {"predictable", "conversation"} /\ EmptyCandidate(tr[i])) =>
                       ~genOut.ok /\ genOut.err = EmptyError
            /\ \A i \in 1 .. Len(tr) :
                   (tr[i].via \in {"slug", "slug-backup"} /\ EmptyCandidate(tr[i])) =>
                       (genOut.err = EmptyError) =
                           (tr[Len(tr)].via = "conversation" /\ EmptyCandidate(tr[Len(tr)]))
            /\ (genOut.err = EmptyError) =>
                   tr # <<>> /\ tr[Len(tr)].via \in {"predictable", "conversation"}
                             /\ EmptyCandidate(tr[Len(tr)])

\* C34 witness: the slug model and the slug-backup model both gave
\* candidates that are empty after sanitization, then the conversation
\* model gave one too: the error is reported and nothing is persisted.
C34_Witness ==
    /\ genStage = 1
    /\ genOut.trace = <<TextCall("slug", 1), TextCall("slug-backup", 2), TextCall("conversation", 0)>>
    /\ \A i \in 1 .. 3 : EmptyCandidate(genOut.trace[i])
    /\ genOut.err = EmptyError
    /\ genDb = <<>>

(***************************************************************************)
(* Properties of SpecFill.                                                 *)
(***************************************************************************)

\* Where s stands in sp.subscribers (0: nowhere).
PlaceOf(s) ==
    IF \E i \in 1 .. Len(subscribers) : subscribers[i] = s
    THEN CHOOSE i \in 1 .. Len(subscribers) : subscribers[i] = s
    ELSE 0

\* C35: in every interleaving of Subscribe, Publish, Broadcast, NextFn and
\* cancellation, no mailbox is closed twice and nothing is sent to a
\* closed mailbox (either would panic), and a subscriber whose mailbox
\* was closed is not kept: the call that closed it has passed it and does
\* not put it among the remaining ones, and it is out of sp.subscribers
\* when no call holds the mutex.
C35_ClosedOnceAndRemoved ==
    /\ ~panic
    /\ \A s \in Subs :
           closed[s] =>
               /\ s \notin Range(pub.remaining)
               /\ PlaceOf(s) # 0 => (pub.op # "idle" /\ PlaceOf(s) < pub.i)

\* C35 witness: the subscriber's mailbox filled up, the call that found
\* it full closed it and has returned, and the subscriber is not in the
\* list; the consumer has not read anything.
C35_Witness ==
    /\ closed["s1"]
    /\ Len(ch["s1"]) = ChanCap
    /\ pub.op = "idle"
    /\ subscribers = <<>>
    /\ ~term["s1"]

(***************************************************************************)
(* Properties of SpecStream.                                               *)
(***************************************************************************)

\* The client of s has message n, or will get it from its mailbox.
Reaches(n, s) == n \in stGot[s] \/ MsgVal(n) \in Range(ch[s])

\* The client of s is subscribed, connected and was not dropped.
Connected(s) == stPc[s] = "sub" /\ ~closed[s] /\ ~done[s]

\* C36: a streaming client misses no message: every message that was
\* appended after the client's request read the log, and whose Publish
\* has run, has reached the client or waits in its mailbox, as long as
\* the client is connected and was not dropped as behind.
C36_StreamMissesNothing ==
    \A s \in Subs :
        Connected(s) =>
            \A n \in Range(published) : n > stLast[s] => Reaches(n, s)

\* Publish(n) ran before the Publish of every later message.
NotOvertaken(n) ==
    \A i, j \in 1 .. Len(published) :
        (published[j] = n /\ published[i] > n) => j < i

\* C37: a metadata-only publish never hides a message: a subscriber that
\* was registered and live when the snapshot of message n was published,
\* had subscribed below n and was not overtaken by the snapshot of a later
\* message, has that snapshot (or it waits in its mailbox) unless the
\* subscriber was dropped since.
C37_MetadataHidesNothing ==
    \A n \in Range(published) :
        \A s \in present[n] :
            (Connected(s) /\ stLast[s] < n /\ NotOvertaken(n)) => Reaches(n, s)

(***************************************************************************)
(* Properties of SpecEvict.                                                *)
(***************************************************************************)

\* The managers in the map that have been inactive for more than EvictAfter.
Overdue == {evMap[c] : c \in {d \in ConvIds : evMap[d] # NoMgr /\ evNow - evLast[evMap[d]] > EvictAfter}}

\* C32: the sweep removes exactly the managers whose last activity is more
\* than thirty minutes old, stops them and leaves the others alone; a
\* manager leaves the map in no other way, so one touched within the last
\* thirty minutes stays; getOrCreate and a recorded message set the activity
\* time to now; the map never holds a stopped manager; and the request that
\* finds no manager makes a new one, never a stopped one.
C32_SweepEvictsExactlyIdle ==
    /\ [](\A c \in ConvIds : evMap[c] # NoMgr => evMap[c] \notin evStopped)
    /\ [][evOp' =>
            /\ evStopped' = evStopped \cup Overdue
            /\ \A c \in ConvIds :
                   evMap'[c] = IF evMap[c] \in Overdue THEN NoMgr ELSE evMap[c]]_vars
    /\ [][\A c \in ConvIds :
            (evMap[c] # NoMgr /\ evMap'[c] # evMap[c]) =>
                evOp' /\ evMap'[c] = NoMgr /\ evNow - evLast[evMap[c]] > EvictAfter]_vars
    /\ [][\A c \in ConvIds :
            (evMap[c] = NoMgr /\ evMap'[c] # NoMgr) =>
                /\ evMap'[c] = evMade + 1
                /\ evMade' = evMade + 1
                /\ evLast'[evMap'[c]] = evNow
                /\ evMap'[c] \notin evStopped']_vars
    /\ [][\A n \in EvSeqs :
            (evNpc[n] = "created" /\ evNpc'[n] = "lookup" /\ evMap["c1"] # NoMgr) =>
                evLast'[evMap["c1"]] = evNow]_vars
    /\ [][\A m \in EvMgrs : evLast'[m] # evLast[m] => evLast'[m] = evNow /\ ~evOp']_vars

\* The sweep has stopped and removed the first manager of "c1", and the
\* next request has made the second manager for the same conversation.
C32_Witness ==
    /\ 1 \in evStopped
    /\ evMap["c1"] = 2
    /\ evLast[2] = evNow

\* The snapshot of message n has reached the client or waits in its mailbox.
EvReaches(n) == n \in evSub.got \/ MsgVal(n) \in Range(evBus[evSub.mgr].ch[EvClient])

\* The client is subscribed and was not dropped from its bus.
EvConnected ==
    /\ evSub.pc = "sub"
    /\ ~evBus[evSub.mgr].closed[EvClient]
    /\ ~evBus[evSub.mgr].done[EvClient]

\* Publish(n) ran before the Publish of every later message.
EvNotOvertaken(n) ==
    \A i, j \in 1 .. Len(evPublished) :
        (evPublished[j] = n /\ evPublished[i] > n) => j < i

\* C40: eviction does not orphan subscribers: a connected stream
\* subscriber has (or has waiting in its mailbox) the snapshot of every
\* message that was appended after it subscribed and whose Publish has run
\* in order, also after the sweep evicted the conversation's manager and a
\* later request made a new one.
C40_EvictionKeepsSubscribers ==
    EvConnected =>
        \A n \in Range(evPublished) :
            (n >= evSub.joined /\ EvNotOvertaken(n)) => EvReaches(n)

====
